---- MODULE Spec2Model ----
(***************************************************************************)
(* A model of the personal finance tracker: the spreadsheet access layer   *)
(* (lib/google-sheets.ts), the /api/sheets route handlers                  *)
(* (app/api/sheets/route.ts), the client store (the zustand store), the    *)
(* routing guard (middleware.ts) and the credentials provider              *)
(* (lib/auth.ts).                                                          *)
(*                                                                         *)
(* Conventions.  A sheet cell is a string; "" is a blank cell, which the   *)
(* code cannot tell from a missing one (row[i] || '').  A number that the  *)
(* code tests with `x || d` is an integer, 0 standing for every falsy      *)
(* value; NaN is a separate value.  A thrown exception is the record       *)
(* [threw |-> TRUE, ...], a normal return [threw |-> FALSE, value |-> v].  *)
(***************************************************************************)
EXTENDS Integers, Sequences, FiniteSets, TLC

VARIABLES
    env,        \* process.env of the server, fixed for a run
    today,      \* <<month, year>> of the server's wall clock
    tabs,       \* the tabs the spreadsheet has
    sheet,      \* tab -> rows, row 1 first; no trailing blank row
    last,       \* the request the server has just handled and its response
    appended,   \* the record of the last POST answered {success: true}, until it is read
    store,      \* the state object of the client store
    inflight,   \* the fetches of loadData that await their response
    calls,      \* the number of loadData calls made so far
    resolved,   \* the ids of the fetches that have resolved, in that order
    lastResponse, \* the response that resolved last
    token,      \* the session token of the browser, or null
    signIn,     \* the last call of authorize and what it returned
    visit,      \* the last page request and what the middleware did with it
    insight,    \* the last render of the recommendations and what it read
    checked,    \* the last call of a validation function and its result
    puts,       \* the PUT requests of the asset actions that await their response
    edits,      \* the number of edit actions called so far
    lastEdit,   \* the last edit action called
    lastPut,    \* the last PUT that was settled and the assets after it
    storedValue,\* the hook's state in each tab
    localStorage, \* the item of each key, shared by the tabs
    events,     \* the storage events each tab has still to handle
    acted,      \* the tabs that called setValue or removeValue
    uses,       \* the number of calls of the hook's functions so far
    held,       \* the expense a component took from the store, if any
    sheetEdits, \* the number of rows the user has inserted or removed
    clock,      \* the time, in ticks
    timers,     \* the timers each wrapper has set that have not run
    called,     \* the calls of each wrapper, with their time and arguments
    ran,        \* the invocations of the wrapped function by each wrapper's timers
    requests,   \* the requests of addIncome, addExpense and updateBudgetCategory that have not run to their end
    ended       \* the last of these actions that ran to its end, and the outcome of its request

apiVars == <<env, today, tabs, sheet, last, appended>>
storeVars == <<store, inflight, calls, resolved, lastResponse>>
authVars == <<token, signIn, visit>>
viewVars == <<insight>>
validVars == <<checked>>
editVars == <<puts, edits, lastEdit, lastPut>>
hookVars == <<storedValue, localStorage, events, acted, uses>>
idsVars == <<held, sheetEdits>>
debounceVars == <<clock, timers, called, ran>>
mutateVars == <<requests, ended>>
vars == <<apiVars, storeVars, authVars, viewVars, validVars, editVars, hookVars, idsVars, debounceVars, mutateVars>>

\* what the actions of one part leave alone
nonApiVars == <<storeVars, authVars, viewVars, validVars, editVars, hookVars, idsVars, debounceVars, mutateVars>>
nonStoreVars == <<apiVars, authVars, viewVars, validVars, editVars, hookVars, idsVars, debounceVars, mutateVars>>
nonAuthVars == <<apiVars, storeVars, viewVars, validVars, editVars, hookVars, idsVars, debounceVars, mutateVars>>
nonViewVars == <<apiVars, storeVars, authVars, validVars, editVars, hookVars, idsVars, debounceVars, mutateVars>>
nonValidVars == <<apiVars, storeVars, authVars, viewVars, editVars, hookVars, idsVars, debounceVars, mutateVars>>
nonEditVars == <<apiVars, storeVars, authVars, viewVars, validVars, hookVars, idsVars, debounceVars, mutateVars>>
nonHookVars == <<apiVars, storeVars, authVars, viewVars, validVars, editVars, idsVars, debounceVars, mutateVars>>
nonIdsVars == <<apiVars, storeVars, authVars, viewVars, validVars, editVars, hookVars, debounceVars, mutateVars>>
nonDebounceVars == <<apiVars, storeVars, authVars, viewVars, validVars, editVars, hookVars, idsVars, mutateVars>>
nonMutateVars == <<apiVars, storeVars, authVars, viewVars, validVars, editVars, hookVars, idsVars, debounceVars>>

\* the parts beside the route, the store and its edits
restVars == <<authVars, viewVars, validVars, hookVars, idsVars, debounceVars, mutateVars>>
nonStoreEditVars == <<apiVars, restVars>>

----------------------------------------------------------------------------
(* Bounds and input sets *)

MaxRows == 3            \* rows a tab may grow to (row 1 included)
MaxUnset == 1           \* environment variables that may be missing at once
MaxLoads == 3           \* loadData calls in one run
MaxEdits == 2           \* edit actions in one run
MaxUses == 3            \* calls of the hook's functions in one run
MaxSheetEdits == 2      \* rows the user inserts or removes in one run
MaxCalls == 3           \* calls of the debounced wrappers in one run
MaxTime == 5            \* ticks of the clock in one run
MaxLate == 1            \* ticks a timer may run after it is due

\* <<month, year>> of a request, and of the server's clock
Periods == {<<6, 2025>>, <<7, 2025>>, <<6, 2026>>}
Todays == {<<6, 2025>>, <<7, 2025>>}

----------------------------------------------------------------------------
(* Numbers in cells *)

NaN == -999999

NumTable ==
    [s \in {"6", "7", "2025", "2026", "100", "250", "1000", "1200",
             "950", "1040", "9500", "10000", "10400"} |->
        CASE s = "6" -> 6
          [] s = "950" -> 950
          [] s = "1040" -> 1040
          [] s = "9500" -> 9500
          [] s = "10000" -> 10000
          [] s = "10400" -> 10400
          [] s = "7" -> 7
          [] s = "2025" -> 2025
          [] s = "2026" -> 2026
          [] s = "100" -> 100
          [] s = "250" -> 250
          [] s = "1000" -> 1000
          [] s = "1200" -> 1200]

\* parseFloat / parseInt of a cell: the number a numeric string denotes, NaN
\* for a blank cell and for text
parseNumber(cell) == IF cell \in DOMAIN NumTable THEN NumTable[cell] ELSE NaN

\* x || d for a number x
OrNum(x, d) == IF x = NaN \/ x = 0 THEN d ELSE x

\* what the spreadsheet stores for a number written with USER_ENTERED
\* (undefined and null leave the cell blank)
NumCell(n) ==
    IF \E s \in DOMAIN NumTable : NumTable[s] = n
    THEN CHOOSE s \in DOMAIN NumTable : NumTable[s] = n
    ELSE ""

\* row[i] of a row of the API, 1-based here; trailing blank cells are omitted
Cell(row, i) == IF i <= Len(row) THEN row[i] ELSE ""

\* s || d for a string s
OrStr(s, d) == IF s = "" THEN d ELSE s

Min(a, b) == IF a <= b THEN a ELSE b

Range(seq) == {seq[i] : i \in 1..Len(seq)}

Max(a, b) == IF a >= b THEN a ELSE b

\* n blank rows
Blanks(n) == [i \in 1..n |-> <<>>]

RECURSIVE TrimRow(_)
\* a row as the spreadsheet returns it: trailing blank cells dropped
TrimRow(row) ==
    IF Len(row) > 0 /\ row[Len(row)] = "" THEN TrimRow(SubSeq(row, 1, Len(row) - 1)) ELSE row

RECURSIVE TrimRows(_)
\* a tab as the spreadsheet returns it: trailing blank rows dropped
TrimRows(rows) ==
    IF Len(rows) > 0 /\ rows[Len(rows)] = <<>> THEN TrimRows(SubSeq(rows, 1, Len(rows) - 1)) ELSE rows

----------------------------------------------------------------------------
(* The environment and the service instance *)

EnvVars == {"GOOGLE_SHEET_ID", "GOOGLE_CLIENT_EMAIL", "GOOGLE_PRIVATE_KEY", "GOOGLE_PROJECT_ID"}

\* a variable is "" (absent or empty), "set", or for the sheet id the
\* placeholder id of the template
PlaceholderId == "1234567890abcdef1234567890abcdef12345678"

Envs ==
    {e \in [EnvVars -> {"", "set", PlaceholderId}] :
        /\ \A v \in EnvVars \ {"GOOGLE_SHEET_ID"} : e[v] # PlaceholderId
        /\ Cardinality({v \in EnvVars : e[v] # "set"}) <= MaxUnset}

\* the ranges the route configures the service with: tab, first and last row
ranges ==
    [income   |-> [tab |-> "Income",   first |-> 2, last |-> 100],
     budget   |-> [tab |-> "Budget",   first |-> 2, last |-> 100],
     expenses |-> [tab |-> "Expenses", first |-> 2, last |-> 1000],
     assets   |-> [tab |-> "Assets",   first |-> 2, last |-> 100],
     accounts |-> [tab |-> "Accounts", first |-> 2, last |-> 100]]

\* GoogleSheetsService.constructor: isConfigured
isConfigured(e) ==
    /\ e["GOOGLE_PRIVATE_KEY"] # ""
    /\ e["GOOGLE_CLIENT_EMAIL"] # ""
    /\ e["GOOGLE_PROJECT_ID"] # ""
    /\ e["GOOGLE_SHEET_ID"] # ""
    /\ e["GOOGLE_SHEET_ID"] # PlaceholderId

\* createSheetsService: throws on the first missing required variable
createSheetsService(e) ==
    IF e["GOOGLE_SHEET_ID"] = "" THEN [threw |-> TRUE, message |-> "Missing required environment variable: GOOGLE_SHEET_ID"]
    ELSE IF e["GOOGLE_CLIENT_EMAIL"] = "" THEN [threw |-> TRUE, message |-> "Missing required environment variable: GOOGLE_CLIENT_EMAIL"]
    ELSE IF e["GOOGLE_PRIVATE_KEY"] = "" THEN [threw |-> TRUE, message |-> "Missing required environment variable: GOOGLE_PRIVATE_KEY"]
    ELSE [threw |-> FALSE, message |-> ""]

----------------------------------------------------------------------------
(* The spreadsheet API, as the service calls it *)

AllTabs == {"Income", "Budget", "Budgeting", "Expenses", "Spending", "Assets", "Accounts"}

\* sheets.spreadsheets.values.get: the rows of the range down to the last row
\* that is not blank; rejects when the call fails or the tab does not exist
valuesGet(tbs, sh, range, apiOk) ==
    IF ~apiOk \/ range.tab \notin tbs
    THEN [threw |-> TRUE, value |-> <<>>]
    ELSE [threw |-> FALSE,
          value |-> SubSeq(sh[range.tab], range.first, Min(range.last, Len(sh[range.tab])))]

\* sheets.spreadsheets.values.append with INSERT_ROWS: the rows are written
\* below the last row of the range that is not blank
valuesAppend(tbs, sh, range, values, apiOk) ==
    IF ~apiOk \/ range.tab \notin tbs
    THEN [threw |-> TRUE, sheet |-> sh]
    ELSE LET rows == sh[range.tab]
             pad == Blanks(Max(0, range.first - 1 - Len(rows)))
         IN [threw |-> FALSE,
             sheet |-> [sh EXCEPT ![range.tab] =
                           TrimRows(rows \o pad \o [i \in 1..Len(values) |-> TrimRow(values[i])])]]

\* sheets.spreadsheets.values.update: the rows of the range are overwritten
\* from its first row on
valuesUpdate(tbs, sh, range, values, apiOk) ==
    IF ~apiOk \/ range.tab \notin tbs
    THEN [threw |-> TRUE, sheet |-> sh]
    ELSE LET rows == sh[range.tab]
             n == Max(Len(rows), range.first + Len(values) - 1)
         IN [threw |-> FALSE,
             sheet |-> [sh EXCEPT ![range.tab] =
                           TrimRows([i \in 1..n |->
                               IF i >= range.first /\ i < range.first + Len(values)
                               THEN TrimRow(values[i - range.first + 1])
                               ELSE IF i <= Len(rows) THEN rows[i] ELSE <<>>])]]

----------------------------------------------------------------------------
(* GoogleSheetsService: the three range operations *)

\* getRange with its catch removed
getRangeNoCatch(e, tbs, sh, range, apiOk) ==
    IF ~isConfigured(e) THEN [threw |-> FALSE, value |-> <<>>]
    ELSE valuesGet(tbs, sh, range, apiOk)

getRange(e, tbs, sh, range, apiOk) ==
    IF ~isConfigured(e) THEN [threw |-> FALSE, value |-> <<>>]
    ELSE LET r == valuesGet(tbs, sh, range, apiOk)
         IN  IF r.threw THEN [threw |-> FALSE, value |-> <<>>]
             ELSE [threw |-> FALSE, value |-> r.value]

\* updateRange with its catch removed
updateRangeNoCatch(e, tbs, sh, range, values, apiOk) ==
    IF ~isConfigured(e) THEN [threw |-> FALSE, sheet |-> sh]
    ELSE valuesUpdate(tbs, sh, range, values, apiOk)

updateRange(e, tbs, sh, range, values, apiOk) ==
    IF ~isConfigured(e) THEN [threw |-> FALSE, sheet |-> sh]
    ELSE LET r == valuesUpdate(tbs, sh, range, values, apiOk)
         IN  IF r.threw THEN [threw |-> FALSE, sheet |-> sh]
             ELSE [threw |-> FALSE, sheet |-> r.sheet]

\* appendData with its catch removed
appendDataNoCatch(e, tbs, sh, range, values, apiOk) ==
    IF ~isConfigured(e) THEN [threw |-> FALSE, sheet |-> sh]
    ELSE valuesAppend(tbs, sh, range, values, apiOk)

appendData(e, tbs, sh, range, values, apiOk) ==
    IF ~isConfigured(e) THEN [threw |-> FALSE, sheet |-> sh]
    ELSE LET r == valuesAppend(tbs, sh, range, values, apiOk)
         IN  IF r.threw THEN [threw |-> FALSE, sheet |-> sh]
             ELSE [threw |-> FALSE, sheet |-> r.sheet]

----------------------------------------------------------------------------
(* The domain getters of GoogleSheetsService.  Each takes the rows its     *)
(* getRange call resolved to.  An id `income-3` is the pair <<"income", 3>>. *)

\* `${year}-${month.toString().padStart(2, '0')}-dd`
DateStr ==
    <<2025, 6, "05">> :> "2025-06-05" @@
    <<2025, 6, "08">> :> "2025-06-08" @@
    <<2025, 6, "10">> :> "2025-06-10" @@
    <<2025, 6, "12">> :> "2025-06-12" @@
    <<2025, 6, "15">> :> "2025-06-15" @@
    <<2025, 6, "18">> :> "2025-06-18" @@
    <<2025, 6, "20">> :> "2025-06-20" @@
    <<2025, 6, "22">> :> "2025-06-22" @@
    <<2025, 6, "25">> :> "2025-06-25" @@
    <<2025, 6, "28">> :> "2025-06-28" @@
    <<2025, 7, "05">> :> "2025-07-05" @@
    <<2025, 7, "08">> :> "2025-07-08" @@
    <<2025, 7, "10">> :> "2025-07-10" @@
    <<2025, 7, "12">> :> "2025-07-12" @@
    <<2025, 7, "15">> :> "2025-07-15" @@
    <<2025, 7, "18">> :> "2025-07-18" @@
    <<2025, 7, "20">> :> "2025-07-20" @@
    <<2025, 7, "22">> :> "2025-07-22" @@
    <<2025, 7, "25">> :> "2025-07-25" @@
    <<2025, 7, "28">> :> "2025-07-28" @@
    <<2026, 6, "05">> :> "2026-06-05" @@
    <<2026, 6, "08">> :> "2026-06-08" @@
    <<2026, 6, "10">> :> "2026-06-10" @@
    <<2026, 6, "12">> :> "2026-06-12" @@
    <<2026, 6, "15">> :> "2026-06-15" @@
    <<2026, 6, "18">> :> "2026-06-18" @@
    <<2026, 6, "20">> :> "2026-06-20" @@
    <<2026, 6, "22">> :> "2026-06-22" @@
    <<2026, 6, "25">> :> "2026-06-25" @@
    <<2026, 6, "28">> :> "2026-06-28" @@
    <<2026, 7, "05">> :> "2026-07-05" @@
    <<2026, 7, "08">> :> "2026-07-08" @@
    <<2026, 7, "10">> :> "2026-07-10" @@
    <<2026, 7, "12">> :> "2026-07-12" @@
    <<2026, 7, "15">> :> "2026-07-15" @@
    <<2026, 7, "18">> :> "2026-07-18" @@
    <<2026, 7, "20">> :> "2026-07-20" @@
    <<2026, 7, "22">> :> "2026-07-22" @@
    <<2026, 7, "25">> :> "2026-07-25" @@
    <<2026, 7, "28">> :> "2026-07-28"

\* new Date().toISOString() at the time of the call
NowIso == "now"

DemoIncome(month, year) ==
    << [id |-> <<"income", 1>>, source |-> "Salary", amount |-> 25000000, month |-> month, year |-> year, account |-> "BCA Checking"],
       [id |-> <<"income", 2>>, source |-> "Freelance Work", amount |-> 5000000, month |-> month, year |-> year, account |-> "BCA Checking"],
       [id |-> <<"income", 3>>, source |-> "Investment Returns", amount |-> 2500000, month |-> month, year |-> year, account |-> "Investasi Saham"] >>

DemoBudget(month, year) ==
    <<
       [id |-> <<"budget", 1>>, name |-> "Food & Groceries", type |-> "needs", color |-> "#10B981", allocation |-> 4000000, spent |-> 3200000, month |-> month, year |-> year, account |-> "BCA Checking"],
       [id |-> <<"budget", 2>>, name |-> "Transportation", type |-> "needs", color |-> "#3B82F6", allocation |-> 2000000, spent |-> 1800000, month |-> month, year |-> year, account |-> "BCA Checking"],
       [id |-> <<"budget", 3>>, name |-> "Utilities", type |-> "needs", color |-> "#F59E0B", allocation |-> 1500000, spent |-> 1200000, month |-> month, year |-> year, account |-> "BCA Checking"],
       [id |-> <<"budget", 4>>, name |-> "Entertainment", type |-> "wants", color |-> "#EF4444", allocation |-> 2500000, spent |-> 3100000, month |-> month, year |-> year, account |-> "BCA Checking"],
       [id |-> <<"budget", 5>>, name |-> "Shopping", type |-> "wants", color |-> "#8B5CF6", allocation |-> 2000000, spent |-> 1500000, month |-> month, year |-> year, account |-> "BCA Checking"],
       [id |-> <<"budget", 6>>, name |-> "Emergency Fund", type |-> "savings", color |-> "#059669", allocation |-> 5000000, spent |-> 5000000, month |-> month, year |-> year, account |-> "Mandiri Savings"],
       [id |-> <<"budget", 7>>, name |-> "Investments", type |-> "savings", color |-> "#7C3AED", allocation |-> 3000000, spent |-> 3000000, month |-> month, year |-> year, account |-> "Investasi Saham"] >>

DemoExpenses(month, year) ==
    <<
       [id |-> <<"expense", 1>>, date |-> DateStr[<<year, month, "05">>], description |-> "Supermarket Shopping", amount |-> 750000, category |-> "Food & Groceries", account |-> "BCA Checking", month |-> month, year |-> year],
       [id |-> <<"expense", 2>>, date |-> DateStr[<<year, month, "08">>], description |-> "Grab Transport", amount |-> 85000, category |-> "Transportation", account |-> "BCA Checking", month |-> month, year |-> year],
       [id |-> <<"expense", 3>>, date |-> DateStr[<<year, month, "10">>], description |-> "Electricity Bill", amount |-> 450000, category |-> "Utilities", account |-> "BCA Checking", month |-> month, year |-> year],
       [id |-> <<"expense", 4>>, date |-> DateStr[<<year, month, "12">>], description |-> "Netflix Subscription", amount |-> 186000, category |-> "Entertainment", account |-> "BCA Checking", month |-> month, year |-> year],
       [id |-> <<"expense", 5>>, date |-> DateStr[<<year, month, "15">>], description |-> "Restaurant Dinner", amount |-> 420000, category |-> "Entertainment", account |-> "BCA Checking", month |-> month, year |-> year],
       [id |-> <<"expense", 6>>, date |-> DateStr[<<year, month, "18">>], description |-> "Clothing Shopping", amount |-> 650000, category |-> "Shopping", account |-> "BCA Checking", month |-> month, year |-> year],
       [id |-> <<"expense", 7>>, date |-> DateStr[<<year, month, "20">>], description |-> "Grocery Store", amount |-> 320000, category |-> "Food & Groceries", account |-> "BCA Checking", month |-> month, year |-> year],
       [id |-> <<"expense", 8>>, date |-> DateStr[<<year, month, "22">>], description |-> "Gas Station", amount |-> 200000, category |-> "Transportation", account |-> "BCA Checking", month |-> month, year |-> year],
       [id |-> <<"expense", 9>>, date |-> DateStr[<<year, month, "25">>], description |-> "Coffee Shop", amount |-> 85000, category |-> "Entertainment", account |-> "BCA Checking", month |-> month, year |-> year],
       [id |-> <<"expense", 10>>, date |-> DateStr[<<year, month, "28">>], description |-> "Internet Bill", amount |-> 350000, category |-> "Utilities", account |-> "BCA Checking", month |-> month, year |-> year] >>

\* shares are kept in tenths (the demo holds 0.5 of a coin)
DemoAssets ==
    <<
       [id |-> <<"asset", 1>>, name |-> "Bank BCA Saham", type |-> "liquid", category |-> "stocks", symbol |-> "BBCA.JK", shares |-> 1000, price |-> 9750, currentValue |-> 97500000, targetValue |-> 120000000, lastUpdated |-> NowIso],
       [id |-> <<"asset", 2>>, name |-> "Bitcoin", type |-> "liquid", category |-> "crypto", symbol |-> "BTC", shares |-> 5, price |-> 1500000000, currentValue |-> 75000000, targetValue |-> 100000000, lastUpdated |-> NowIso],
       [id |-> <<"asset", 3>>, name |-> "Deposito BCA", type |-> "liquid", category |-> "deposit", symbol |-> "DEP", shares |-> 10, price |-> 50000000, currentValue |-> 50000000, targetValue |-> 60000000, lastUpdated |-> NowIso],
       [id |-> <<"asset", 4>>, name |-> "Ethereum", type |-> "liquid", category |-> "crypto", symbol |-> "ETH", shares |-> 20, price |-> 65000000, currentValue |-> 130000000, targetValue |-> 150000000, lastUpdated |-> NowIso],
       [id |-> <<"asset", 5>>, name |-> "Gold Investment", type |-> "liquid", category |-> "gold", symbol |-> "GOLD", shares |-> 100, price |-> 1200000, currentValue |-> 12000000, targetValue |-> 15000000, lastUpdated |-> NowIso] >>

DemoAccounts ==
    << [id |-> <<"account", 1>>, name |-> "BCA Checking", type |-> "checking", balance |-> 15750000, color |-> "#3B82F6"],
       [id |-> <<"account", 2>>, name |-> "Mandiri Savings", type |-> "savings", balance |-> 87500000, color |-> "#10B981"],
       [id |-> <<"account", 3>>, name |-> "Investasi Saham", type |-> "investment", balance |-> 125000000, color |-> "#8B5CF6"] >>

\* data.slice(1)
Slice1(data) == IF Len(data) = 0 THEN <<>> ELSE Tail(data)

\* .filter(item => item.month === month && item.year === year)
FilterPeriod(items, month, year) ==
    SelectSeq(items, LAMBDA item : item.month = month /\ item.year = year)

getMonthlyIncome(data, month, year, now) ==
    IF Len(data) = 0
    THEN IF month # now[1] \/ year # now[2] THEN <<>> ELSE DemoIncome(month, year)
    ELSE LET rows == Slice1(data)
         IN FilterPeriod(
               [i \in 1..Len(rows) |->
                   [id |-> <<"income", i - 1>>,
                    source |-> OrStr(Cell(rows[i], 1), ""),
                    amount |-> OrNum(parseNumber(Cell(rows[i], 2)), 0),
                    month |-> OrNum(parseNumber(Cell(rows[i], 3)), month),
                    year |-> OrNum(parseNumber(Cell(rows[i], 4)), year),
                    account |-> OrStr(Cell(rows[i], 5), "")]],
               month, year)

\* the type column of the Budget tab, by the words the lower-cased cell
\* includes; cells are drawn from this vocabulary
budgetType(cell) ==
    IF cell \in {"Variable", "Entertainment", "Travel"} THEN "wants"
    ELSE IF cell \in {"Savings", "savings", "Investment"} THEN "savings"
    ELSE "needs"

getBudgetCategories(data, month, year, now) ==
    IF Len(data) = 0
    THEN DemoBudget(month, year)
    ELSE LET rows == Slice1(data)
         IN FilterPeriod(
               [i \in 1..Len(rows) |->
                   [id |-> <<"budget", i - 1>>,
                    name |-> OrStr(Cell(rows[i], 1), ""),
                    type |-> budgetType(Cell(rows[i], 2)),
                    color |-> OrStr(Cell(rows[i], 3), "#3B82F6"),
                    allocation |-> OrNum(parseNumber(Cell(rows[i], 4)), 0),
                    spent |-> OrNum(parseNumber(Cell(rows[i], 5)), 0),
                    month |-> OrNum(parseNumber(Cell(rows[i], 6)), month),
                    year |-> OrNum(parseNumber(Cell(rows[i], 7)), year),
                    account |-> OrStr(Cell(rows[i], 8), "")]],
               month, year)

\* a getExpenses whose ids come from the row's amount, not from its position
getExpensesIdOfAmount(data, month, year, now) ==
    IF Len(data) = 0
    THEN IF month # now[1] \/ year # now[2] THEN <<>> ELSE DemoExpenses(month, year)
    ELSE LET rows == Slice1(data)
         IN FilterPeriod(
               [i \in 1..Len(rows) |->
                   [id |-> <<"expense", OrNum(parseNumber(Cell(rows[i], 3)), 0)>>,
                    date |-> OrStr(Cell(rows[i], 1), ""),
                    description |-> OrStr(Cell(rows[i], 2), ""),
                    amount |-> OrNum(parseNumber(Cell(rows[i], 3)), 0),
                    category |-> OrStr(Cell(rows[i], 4), ""),
                    account |-> OrStr(Cell(rows[i], 5), ""),
                    month |-> OrNum(parseNumber(Cell(rows[i], 6)), month),
                    year |-> OrNum(parseNumber(Cell(rows[i], 7)), year)]],
               month, year)

getExpenses(data, month, year, now) ==
    IF Len(data) = 0
    THEN IF month # now[1] \/ year # now[2] THEN <<>> ELSE DemoExpenses(month, year)
    ELSE LET rows == Slice1(data)
         IN FilterPeriod(
               [i \in 1..Len(rows) |->
                   [id |-> <<"expense", i - 1>>,
                    date |-> OrStr(Cell(rows[i], 1), ""),
                    description |-> OrStr(Cell(rows[i], 2), ""),
                    amount |-> OrNum(parseNumber(Cell(rows[i], 3)), 0),
                    category |-> OrStr(Cell(rows[i], 4), ""),
                    account |-> OrStr(Cell(rows[i], 5), ""),
                    month |-> OrNum(parseNumber(Cell(rows[i], 6)), month),
                    year |-> OrNum(parseNumber(Cell(rows[i], 7)), year)]],
               month, year)

\* the type and category columns of the Assets tab, as budgetType
assetType(cell) ==
    IF cell \in {"Property", "Real Estate", "Land"} THEN "non-liquid" ELSE "liquid"

assetCategory(cell) ==
    IF cell \in {"Digital", "Crypto", "crypto"} THEN "crypto"
    ELSE IF cell \in {"Property", "property", "Real Estate"} THEN "property"
    ELSE IF cell \in {"Investment", "Stock", "stocks", "Fund"} THEN "stocks"
    ELSE IF cell \in {"Precious Metal", "Gold", "gold"} THEN "gold"
    ELSE IF cell \in {"Deposit", "deposit", "Savings"} THEN "deposit"
    ELSE "cash"

getAssets(data) ==
    IF Len(data) = 0
    THEN DemoAssets
    ELSE LET rows == Slice1(data)
         IN [i \in 1..Len(rows) |->
                [id |-> <<"asset", i - 1>>,
                 name |-> OrStr(Cell(rows[i], 1), ""),
                 type |-> assetType(Cell(rows[i], 2)),
                 category |-> assetCategory(Cell(rows[i], 3)),
                 symbol |-> OrStr(Cell(rows[i], 4), ""),
                 shares |-> OrNum(parseNumber(Cell(rows[i], 5)), 0),
                 price |-> OrNum(parseNumber(Cell(rows[i], 6)), 0),
                 currentValue |-> OrNum(parseNumber(Cell(rows[i], 7)), 0),
                 targetValue |-> OrNum(parseNumber(Cell(rows[i], 8)), 0),
                 lastUpdated |-> OrStr(Cell(rows[i], 9), NowIso)]]

getBankAccounts(data) ==
    IF Len(data) = 0
    THEN DemoAccounts
    ELSE LET rows == Slice1(data)
         IN [i \in 1..Len(rows) |->
                [id |-> <<"account", i - 1>>,
                 name |-> OrStr(Cell(rows[i], 1), ""),
                 type |-> OrStr(Cell(rows[i], 2), "checking"),
                 balance |-> OrNum(parseNumber(Cell(rows[i], 3)), 0),
                 color |-> OrStr(Cell(rows[i], 4), "#3B82F6")]]

----------------------------------------------------------------------------
(* GoogleSheetsService: the write methods.  Each returns the spreadsheet   *)
(* after the call.                                                         *)

addExpense(e, tbs, sh, expense, apiOk) ==
    appendData(e, tbs, sh, ranges.expenses,
               << <<expense.date, expense.description, NumCell(expense.amount),
                    expense.category, expense.account,
                    NumCell(expense.month), NumCell(expense.year)>> >>, apiOk)

addIncome(e, tbs, sh, income, apiOk) ==
    appendData(e, tbs, sh, ranges.income,
               << <<income.source, NumCell(income.amount), NumCell(income.month),
                    NumCell(income.year), income.account>> >>, apiOk)

\* data.findIndex(...): the least index (from 0) of a row after the first
\* that matches the category, -1 if there is none
findCategoryRow(data, category) ==
    LET hits == {i \in 2..Len(data) :
                    /\ Cell(data[i], 1) = category.name
                    /\ parseNumber(Cell(data[i], 6)) = category.month
                    /\ parseNumber(Cell(data[i], 7)) = category.year}
    IN IF hits = {} THEN -1
       ELSE (CHOOSE i \in hits : \A k \in hits : i <= k) - 1

updateBudgetCategory(e, tbs, sh, category, getOk, putOk) ==
    LET r == getRange(e, tbs, sh, ranges.budget, getOk)
    IN IF r.threw THEN [threw |-> TRUE, sheet |-> sh]
       ELSE LET rowIndex == findCategoryRow(r.value, category)
            IN IF rowIndex > 0
               THEN updateRange(e, tbs, sh,
                        [tab |-> ranges.budget.tab, first |-> rowIndex + 1, last |-> rowIndex + 1],
                        << <<category.name, category.type, category.color,
                             NumCell(category.allocation), NumCell(category.spent),
                             NumCell(category.month), NumCell(category.year),
                             category.account>> >>, putOk)
               ELSE [threw |-> FALSE, sheet |-> sh]

updateAssetPrices(e, tbs, sh, assets, apiOk) ==
    updateRange(e, tbs, sh,
        [tab |-> ranges.assets.tab, first |-> 2, last |-> Len(assets) + 1],
        [i \in 1..Len(assets) |->
            <<assets[i].name, assets[i].type, assets[i].category, assets[i].symbol,
              NumCell(assets[i].shares), NumCell(assets[i].price),
              NumCell(assets[i].currentValue), NumCell(assets[i].targetValue),
              assets[i].lastUpdated>>],
        apiOk)

----------------------------------------------------------------------------
(* The route handlers of /api/sheets *)

Getters == {"income", "budget", "expenses", "assets", "accounts"}

\* one getter of the service on the spreadsheet: whether its promise
\* rejected, the rows its getRange resolved to and its value.  `fails` are
\* the getters in whose body an exception is raised.
Getter(key, e, tbs, sh, now, month, year, apiOk, fails) ==
    LET r == getRange(e, tbs, sh, ranges[key], apiOk)
        rows == r.value
    IN IF key = "accounts"
       THEN \* getBankAccounts catches everything and answers the demo accounts
            IF r.threw \/ key \in fails
            THEN [threw |-> FALSE, rows |-> <<>>, value |-> DemoAccounts]
            ELSE [threw |-> FALSE, rows |-> rows, value |-> getBankAccounts(rows)]
       ELSE IF r.threw \/ key \in fails
       THEN [threw |-> TRUE, rows |-> <<>>, value |-> <<>>]
       ELSE [threw |-> FALSE, rows |-> rows,
             value |-> CASE key = "income" -> getMonthlyIncome(rows, month, year, now)
                         [] key = "budget" -> getBudgetCategories(rows, month, year, now)
                         [] key = "expenses" -> getExpenses(rows, month, year, now)
                         [] key = "assets" -> getAssets(rows)]

Error500(error, details) ==
    [status |-> 500, body |-> [error |-> error, details |-> details]]

Error400(error) == [status |-> 400, body |-> [error |-> error]]

Json200(body) == [status |-> 200, body |-> body]

GetTypes == Getters \cup {"historical", "all", "other"}

\* case 'all' with Promise.all in place of Promise.allSettled: one rejection
\* and the catch answers five empty lists
GetAllPromiseAll(e, tbs, sh, now, month, year, apiOk, fails) ==
    LET g(key) == Getter(key, e, tbs, sh, now, month, year, apiOk, fails)
        any == \E key \in Getters : g(key).threw
        settled(key) == IF any THEN <<>> ELSE g(key).value
    IN Json200([data |-> [income |-> settled("income"),
                          budget |-> settled("budget"),
                          expenses |-> settled("expenses"),
                          assets |-> settled("assets"),
                          accounts |-> settled("accounts")]])

\* case 'all': Promise.allSettled over the five getters
GetAll(e, tbs, sh, now, month, year, apiOk, fails) ==
    LET g(key) == Getter(key, e, tbs, sh, now, month, year, apiOk, fails)
        settled(key) == IF g(key).threw THEN <<>> ELSE g(key).value
    IN Json200([data |-> [income |-> settled("income"),
                          budget |-> settled("budget"),
                          expenses |-> settled("expenses"),
                          assets |-> settled("assets"),
                          accounts |-> settled("accounts")]])

\* case 'historical': getAllData, a Promise.all for the current month; the
\* generated history is random and kept opaque
GetHistorical(e, tbs, sh, now, apiOk, fails) ==
    LET g(key) == Getter(key, e, tbs, sh, now, now[1], now[2], apiOk, fails)
    IN IF \E key \in Getters : g(key).threw
       THEN Error500("Failed to fetch data from Google Sheets", "getter")
       ELSE Json200([data |-> [accounts |-> g("accounts").value,
                               assets |-> g("assets").value,
                               currentIncome |-> g("income").value,
                               currentExpenses |-> g("expenses").value,
                               currentBudget |-> g("budget").value,
                               historicalData |-> "generated"]])

GET(e, tbs, sh, now, type, month, year, apiOk, fails) ==
    LET svc == createSheetsService(e)
    IN IF svc.threw THEN Error500("Configuration error", svc.message)
       ELSE IF type \in Getters
       THEN LET g == Getter(type, e, tbs, sh, now, month, year, apiOk, fails)
            IN IF g.threw THEN Error500("Failed to fetch data from Google Sheets", "getter")
               ELSE Json200([data |-> g.value])
       ELSE IF type = "historical" THEN GetHistorical(e, tbs, sh, now, apiOk, fails)
       ELSE IF type = "all" THEN GetAll(e, tbs, sh, now, month, year, apiOk, fails)
       ELSE Error400("Invalid type parameter")

\* POST: the response and the spreadsheet after it
POST(e, tbs, sh, type, data, apiOk) ==
    LET svc == createSheetsService(e)
    IN IF svc.threw
       THEN [res |-> Error500("Failed to add data to Google Sheets", ""), sheet |-> sh]
       ELSE IF type \in {"expense", "income"}
       THEN LET w == IF type = "expense" THEN addExpense(e, tbs, sh, data, apiOk)
                     ELSE addIncome(e, tbs, sh, data, apiOk)
            IN IF w.threw
               THEN [res |-> Error500("Failed to add data to Google Sheets", ""), sheet |-> sh]
               ELSE [res |-> Json200([success |-> TRUE]), sheet |-> w.sheet]
       ELSE [res |-> Error400("Invalid type parameter"), sheet |-> sh]

\* PUT: the response and the spreadsheet after it
PUT(e, tbs, sh, type, data, getOk, putOk) ==
    LET svc == createSheetsService(e)
    IN IF svc.threw
       THEN [res |-> Error500("Failed to update data in Google Sheets", ""), sheet |-> sh]
       ELSE IF type \in {"budget", "assets"}
       THEN LET w == IF type = "budget" THEN updateBudgetCategory(e, tbs, sh, data, getOk, putOk)
                     ELSE updateAssetPrices(e, tbs, sh, data, putOk)
            IN IF w.threw
               THEN [res |-> Error500("Failed to update data in Google Sheets", ""), sheet |-> sh]
               ELSE [res |-> Json200([success |-> TRUE]), sheet |-> w.sheet]
       ELSE [res |-> Error400("Invalid type parameter"), sheet |-> sh]

----------------------------------------------------------------------------
(* The server side as a state machine: requests to /api/sheets against a   *)
(* spreadsheet                                                             *)

RouteTabs == {"Income", "Budget", "Expenses", "Assets", "Accounts"}
GuideTabs == {"Income", "Budgeting", "Spending", "Assets", "Accounts"}

BlankSheet == [t \in AllTabs |-> <<>>]

\* a spreadsheet with a header row and one row of data in each of its tabs
SampleSheet(tbs) ==
    [t \in AllTabs |->
        IF t \notin tbs THEN <<>>
        ELSE IF t = "Income"
        THEN << <<"Source", "Amount", "Month", "Year", "Account">>,
                <<"Salary", "1000", "6", "2025", "BCA Checking">> >>
        ELSE IF t \in {"Budget", "Budgeting"}
        THEN << <<"Category", "Type", "Color", "Allocation", "Spent", "Month", "Year", "Account">>,
                <<"Food", "Fixed", "#10B981", "1000", "250", "6", "2025", "BCA Checking">>,
                <<"Travel", "Variable", "#EF4444", "250", "100", "6", "2025", "BCA Checking">> >>
        ELSE IF t \in {"Expenses", "Spending"}
        THEN << <<"Date", "Description", "Amount", "Category", "Account", "Month", "Year">>,
                <<"2025-06-05", "Lunch", "100", "Food", "BCA Checking", "6", "2025">> >>
        ELSE IF t = "Assets"
        THEN << <<"Name", "Type", "Category", "Symbol", "Shares", "Price", "Current Value", "Target Value", "Last Updated">>,
                <<"Gold", "Liquid", "Gold", "GOLD", "100", "250", "1000", "1200", "2025-06-01">> >>
        ELSE << <<"Name", "Type", "Balance", "Color">>,
                <<"BCA Checking", "checking", "1000", "#3B82F6">> >>]

ExpenseInputs ==
    { [date |-> "2025-06-05", description |-> "Dinner", amount |-> 250, category |-> "Food",
       account |-> "BCA Checking", month |-> 6, year |-> 2025],
      [date |-> "2025-07-08", description |-> "Taxi", amount |-> 100, category |-> "Transportation",
       account |-> "BCA Checking", month |-> 7, year |-> 2025] }

IncomeInputs ==
    { [source |-> "Freelance Work", amount |-> 250, month |-> 6, year |-> 2025, account |-> "BCA Checking"],
      [source |-> "Salary", amount |-> 1200, month |-> 6, year |-> 2026, account |-> "BCA Checking"] }

BudgetInputs ==
    { [id |-> <<"budget", 0>>, name |-> "Food", type |-> "needs", color |-> "#10B981",
       allocation |-> 1000, spent |-> 1200, month |-> 6, year |-> 2025, account |-> "BCA Checking"],
      [id |-> <<"budget", 1>>, name |-> "Travel", type |-> "wants", color |-> "#EF4444",
       allocation |-> 250, spent |-> 100, month |-> 6, year |-> 2025, account |-> "BCA Checking"] }

AssetInputs ==
    { <<>>,
      << [id |-> <<"asset", 0>>, name |-> "Gold", type |-> "liquid", category |-> "gold",
          symbol |-> "GOLD", shares |-> 100, price |-> 250, currentValue |-> 1200,
          targetValue |-> 1200, lastUpdated |-> NowIso] >> }

\* the getters that raise an exception in one request: none, one, or all
FailSets == {{}} \cup {{g} : g \in Getters} \cup {Getters}

Idle == [op |-> "none"]

None == [type |-> "none"]

\* the getter type that reads what a POST type appends
ReadType(postType) == IF postType = "expense" THEN "expenses" ELSE postType

\* whether a GET reads the tab and period of the appended record
Reads(type, month, year, app) ==
    /\ app # None
    /\ type = ReadType(app.type)
    /\ month = app.data.month
    /\ year = app.data.year

\* GET /api/sheets?type=&month=&year=
Get(type, month, year, apiOk, fails) ==
    /\ last = Idle
    /\ last' = [op |-> "GET", type |-> type, month |-> month, year |-> year,
                apiOk |-> apiOk, fails |-> fails,
                range |-> IF type \in Getters /\ ~createSheetsService(env).threw
                          THEN getRange(env, tabs, sheet, ranges[type], apiOk)
                          ELSE [threw |-> FALSE, value |-> <<>>],
                expected |-> IF Reads(type, month, year, appended) THEN appended ELSE None,
                res |-> GET(env, tabs, sheet, today, type, month, year, apiOk, fails)]
    /\ appended' = IF Reads(type, month, year, appended) THEN None ELSE appended
    /\ UNCHANGED <<env, today, tabs, sheet, nonApiVars>>

\* POST /api/sheets {type, data}
Post(type, data, apiOk) ==
    /\ last = Idle
    /\ LET r == POST(env, tabs, sheet, type, data, apiOk)
       IN /\ \A t \in AllTabs : Len(r.sheet[t]) <= MaxRows
          /\ sheet' = r.sheet
          /\ last' = [op |-> "POST", type |-> type, data |-> data, apiOk |-> apiOk,
                      before |-> sheet, res |-> r.res]
          /\ appended' = IF r.res.status = 200 THEN [type |-> type, data |-> data] ELSE None
    /\ UNCHANGED <<env, today, tabs, nonApiVars>>

\* PUT /api/sheets {type, data}
Put(type, data, getOk, putOk) ==
    /\ last = Idle
    /\ LET r == PUT(env, tabs, sheet, type, data, getOk, putOk)
       IN /\ \A t \in AllTabs : Len(r.sheet[t]) <= MaxRows
          /\ sheet' = r.sheet
          /\ last' = [op |-> "PUT", type |-> type, data |-> data, apiOk |-> getOk /\ putOk,
                      before |-> sheet, res |-> r.res]
    /\ appended' = None
    /\ UNCHANGED <<env, today, tabs, nonApiVars>>

\* the response has been sent; the server waits for the next request
Respond ==
    /\ last # Idle
    /\ last' = Idle
    /\ UNCHANGED <<env, today, tabs, sheet, appended, nonApiVars>>

NextApi ==
    \/ \E type \in Getters, p \in Periods, apiOk \in BOOLEAN :
          \E fails \in SUBSET {type} : Get(type, p[1], p[2], apiOk, fails)
    \/ \E p \in Periods, apiOk \in BOOLEAN, fails \in FailSets : Get("all", p[1], p[2], apiOk, fails)
    \/ \E apiOk \in BOOLEAN, fails \in FailSets : Get("historical", today[1], today[2], apiOk, fails)
    \/ \E p \in Periods : Get("other", p[1], p[2], TRUE, {})
    \/ \E data \in ExpenseInputs, apiOk \in BOOLEAN : Post("expense", data, apiOk)
    \/ \E data \in IncomeInputs, apiOk \in BOOLEAN : Post("income", data, apiOk)
    \/ Post("other", <<>>, TRUE)
    \/ \E data \in BudgetInputs, getOk \in BOOLEAN, putOk \in BOOLEAN : Put("budget", data, getOk, putOk)
    \/ \E data \in AssetInputs, putOk \in BOOLEAN : Put("assets", data, TRUE, putOk)
    \/ Put("other", <<>>, TRUE, TRUE)
    \/ Respond

----------------------------------------------------------------------------
(* The client store: its state object and the actions on it *)

\* null, where the value is otherwise a record
Null == [null |-> TRUE]

\* null, where the value is otherwise a string
NoError == "null"

StoreInit ==
    [currentMonth |-> 6, currentYear |-> 2025,
     monthlyIncome |-> <<>>, budgetCategories |-> <<>>, expenses |-> <<>>,
     assets |-> <<>>, bankAccounts |-> <<>>,
     settings |-> Null, historicalData |-> Null, dashboardData |-> Null,
     isLoading |-> FALSE, isUpdating |-> FALSE, error |-> NoError]

RECURSIVE SumSeq(_)
\* reduce((sum, x) => sum + x, 0)
SumSeq(xs) == IF Len(xs) = 0 THEN 0 ELSE xs[1] + SumSeq(Tail(xs))

\* a / b * 100, kept as the fraction
Percent(a, b) == [num |-> a * 100, den |-> b]

\* refreshDashboard: set({dashboardData}).  The monthly trend is drawn with
\* Math.random and kept opaque.  shares are in tenths, so totalCost and
\* profit are in tenths of the currency unit.
refreshDashboard(st) ==
    LET totalIncome == SumSeq([i \in 1..Len(st.monthlyIncome) |-> st.monthlyIncome[i].amount])
        savings == SelectSeq(st.budgetCategories, LAMBDA cat : cat.type = "savings")
        totalSavings == SumSeq([i \in 1..Len(savings) |-> savings[i].allocation])
        totalSpending == SumSeq([i \in 1..Len(st.expenses) |-> st.expenses[i].amount])
        categoryExpenses(category) ==
            LET own == SelectSeq(st.expenses, LAMBDA expense : expense.category = category.name)
            IN SumSeq([i \in 1..Len(own) |-> own[i].amount])
        byCategory ==
            [i \in 1..Len(st.budgetCategories) |->
                [name |-> st.budgetCategories[i].name,
                 value |-> categoryExpenses(st.budgetCategories[i]),
                 color |-> st.budgetCategories[i].color,
                 percentage |-> IF totalSpending > 0
                                THEN Percent(categoryExpenses(st.budgetCategories[i]), totalSpending)
                                ELSE Percent(0, 1)]]
        valueOf(as) == SumSeq([i \in 1..Len(as) |-> as[i].currentValue])
        totalAssetValue == valueOf(st.assets)
        totalCost == SumSeq([i \in 1..Len(st.assets) |->
                        (IF st.assets[i].shares = 0 THEN 10 ELSE st.assets[i].shares) * st.assets[i].price])
        profit == totalAssetValue * 10 - totalCost
    IN [st EXCEPT !.dashboardData =
           [monthlyReport |->
               [month |-> st.currentMonth, year |-> st.currentYear,
                totalIncome |-> totalIncome, totalSavings |-> totalSavings,
                totalSpending |-> totalSpending,
                remainingBudget |-> totalIncome - totalSpending,
                categories |-> st.budgetCategories, accounts |-> st.bankAccounts],
            expensesByCategory |-> SelectSeq(byCategory, LAMBDA item : item.value > 0),
            monthlyTrend |-> "random",
            assetsSummary |->
               [totalValue |-> totalAssetValue,
                liquid |-> valueOf(SelectSeq(st.assets, LAMBDA asset : asset.type = "liquid")),
                nonLiquid |-> valueOf(SelectSeq(st.assets, LAMBDA asset : asset.type = "non-liquid")),
                profit |-> profit,
                profitPercentage |-> IF totalCost > 0 THEN Percent(profit, totalCost)
                                     ELSE Percent(0, 1)]]]

\* loadData up to its fetch: set({isLoading: true, error: null})
loadDataBegin(st) == [st EXCEPT !.isLoading = TRUE, !.error = NoError]

\* a new AbortController per load, aborting the fetch before it
fetchCancelPrevious(pending, request) == {request}

\* fetch(`/api/sheets?type=all&month=..&year=..`): one more request in flight
fetch(pending, request) == pending \cup {request}

\* data.key || fallback
OrList(data, key, fallback) == IF key \in DOMAIN data THEN data[key] ELSE fallback

\* loadData after its fetch, keeping a list the response lacks
loadDataSettleKeep(st, response) ==
    IF response.kind = "ok"
    THEN refreshDashboard(
            [st EXCEPT !.monthlyIncome = OrList(response.data, "income", st.monthlyIncome),
                       !.budgetCategories = OrList(response.data, "budget", st.budgetCategories),
                       !.expenses = OrList(response.data, "expenses", st.expenses),
                       !.assets = OrList(response.data, "assets", st.assets),
                       !.bankAccounts = OrList(response.data, "accounts", st.bankAccounts),
                       !.settings = OrList(response.data, "settings", Null),
                       !.isLoading = FALSE])
    ELSE [st EXCEPT !.error = response.message, !.isLoading = FALSE]

\* a loadData that empties the lists when its fetch fails
loadDataSettleReset(st, response) ==
    IF response.kind = "ok"
    THEN refreshDashboard(
            [st EXCEPT !.monthlyIncome = OrList(response.data, "income", <<>>),
                       !.budgetCategories = OrList(response.data, "budget", <<>>),
                       !.expenses = OrList(response.data, "expenses", <<>>),
                       !.assets = OrList(response.data, "assets", <<>>),
                       !.bankAccounts = OrList(response.data, "accounts", <<>>),
                       !.settings = OrList(response.data, "settings", Null),
                       !.isLoading = FALSE])
    ELSE [st EXCEPT !.monthlyIncome = <<>>, !.expenses = <<>>,
                    !.error = response.message, !.isLoading = FALSE]

\* loadData after its fetch: the lists of an ok response replace the
\* store's and the dashboard is refreshed; anything else sets the error
loadDataSettle(st, response) ==
    IF response.kind = "ok"
    THEN refreshDashboard(
            [st EXCEPT !.monthlyIncome = OrList(response.data, "income", <<>>),
                       !.budgetCategories = OrList(response.data, "budget", <<>>),
                       !.expenses = OrList(response.data, "expenses", <<>>),
                       !.assets = OrList(response.data, "assets", <<>>),
                       !.bankAccounts = OrList(response.data, "accounts", <<>>),
                       !.settings = OrList(response.data, "settings", Null),
                       !.isLoading = FALSE])
    ELSE [st EXCEPT !.error = response.message, !.isLoading = FALSE]

----------------------------------------------------------------------------
(* The responses a load may get *)

\* the lists of version v of the data for a month
ListOf(key, v, month, year) ==
    IF key = "income"
    THEN IF v = 1
         THEN << [id |-> <<"income", 0>>, source |-> "Salary", amount |-> 1000, month |-> month, year |-> year, account |-> "BCA Checking"] >>
         ELSE << [id |-> <<"income", 0>>, source |-> "Freelance Work", amount |-> 250, month |-> month, year |-> year, account |-> "BCA Checking"],
                 [id |-> <<"income", 1>>, source |-> "Bonus", amount |-> 100, month |-> month, year |-> year, account |-> "Mandiri Savings"] >>
    ELSE IF key = "budget"
    THEN IF v = 1
         THEN << [id |-> <<"budget", 0>>, name |-> "Food", type |-> "needs", color |-> "#10B981", allocation |-> 1000, spent |-> 250, month |-> month, year |-> year, account |-> "BCA Checking"] >>
         ELSE << [id |-> <<"budget", 0>>, name |-> "Travel", type |-> "wants", color |-> "#EF4444", allocation |-> 250, spent |-> 100, month |-> month, year |-> year, account |-> "BCA Checking"],
                 [id |-> <<"budget", 1>>, name |-> "Emergency Fund", type |-> "savings", color |-> "#059669", allocation |-> 1200, spent |-> 1200, month |-> month, year |-> year, account |-> "Mandiri Savings"] >>
    ELSE IF key = "expenses"
    THEN IF v = 1
         THEN << [id |-> <<"expense", 0>>, date |-> "2025-06-05", description |-> "Lunch", amount |-> 100, category |-> "Food", account |-> "BCA Checking", month |-> month, year |-> year] >>
         ELSE << [id |-> <<"expense", 0>>, date |-> "2025-06-08", description |-> "Flight", amount |-> 250, category |-> "Travel", account |-> "BCA Checking", month |-> month, year |-> year],
                 [id |-> <<"expense", 1>>, date |-> "2025-06-10", description |-> "Taxi", amount |-> 100, category |-> "Transportation", account |-> "BCA Checking", month |-> month, year |-> year] >>
    ELSE IF key = "assets"
    THEN IF v = 1
         THEN << [id |-> <<"asset", 0>>, name |-> "Gold", type |-> "liquid", category |-> "gold", symbol |-> "GOLD", shares |-> 100, price |-> 100, currentValue |-> 1200, targetValue |-> 1200, lastUpdated |-> "2025-06-01"] >>
         ELSE << [id |-> <<"asset", 0>>, name |-> "Bitcoin", type |-> "liquid", category |-> "crypto", symbol |-> "BTC", shares |-> 5, price |-> 1000, currentValue |-> 250, targetValue |-> 1000, lastUpdated |-> "2025-06-01"],
                 [id |-> <<"asset", 1>>, name |-> "Land", type |-> "non-liquid", category |-> "property", symbol |-> "", shares |-> 0, price |-> 1000, currentValue |-> 1200, targetValue |-> 1200, lastUpdated |-> "2025-06-01"] >>
    ELSE IF v = 1
         THEN << [id |-> <<"account", 0>>, name |-> "BCA Checking", type |-> "checking", balance |-> 1000, color |-> "#3B82F6"] >>
         ELSE << [id |-> <<"account", 0>>, name |-> "Mandiri Savings", type |-> "savings", balance |-> 250, color |-> "#10B981"],
                 [id |-> <<"account", 1>>, name |-> "Investasi Saham", type |-> "investment", balance |-> 1200, color |-> "#8B5CF6"] >>

Versions == {1, 2}

\* the keys a response body may lack: none, one, or all
MissingSets == {{}} \cup {{g} : g \in Getters} \cup {Getters}

\* the data of a response to ?type=all for a month
Body(v, missing, month, year) ==
    [key \in Getters \ missing |-> ListOf(key, v, month, year)]

\* what a fetch of loadData may come to: an ok response, a response with an
\* error status, or a rejection (the network failed)
Responses(request) ==
    {[kind |-> "ok", message |-> "", data |-> Body(v, missing, request.month, request.year)] :
        v \in Versions, missing \in MissingSets}
    \cup {[kind |-> "notOk", message |-> "Failed to fetch data", data |-> Body(1, Getters, 0, 0)],
          [kind |-> "rejected", message |-> "Failed to fetch", data |-> Body(1, Getters, 0, 0)]}

NoResponse == [kind |-> "none", message |-> "", data |-> Body(1, Getters, 0, 0)]

----------------------------------------------------------------------------
(* The store as a state machine *)

\* loadData(): runs to its fetch
LoadData ==
    /\ calls < MaxLoads
    /\ calls' = calls + 1
    /\ store' = loadDataBegin(store)
    /\ inflight' = fetch(inflight, [id |-> calls + 1, month |-> store.currentMonth,
                                    year |-> store.currentYear])
    /\ UNCHANGED <<resolved, lastResponse, nonStoreVars>>

\* setCurrentMonth(month, year): set(...) and loadData() up to its fetch
SetCurrentMonth(month, year) ==
    /\ calls < MaxLoads
    /\ calls' = calls + 1
    /\ store' = loadDataBegin([store EXCEPT !.currentMonth = month, !.currentYear = year])
    /\ inflight' = fetch(inflight, [id |-> calls + 1, month |-> month, year |-> year])
    /\ UNCHANGED <<resolved, lastResponse, nonStoreVars>>

\* the fetch of a loadData resolves or rejects, and loadData runs to its end
LoadDataSettle(request, response) ==
    /\ request \in inflight
    /\ inflight' = inflight \ {request}
    /\ store' = loadDataSettle(store, response)
    /\ resolved' = Append(resolved, request.id)
    /\ lastResponse' = response
    /\ UNCHANGED <<calls, nonStoreVars>>

NextStore ==
    \/ LoadData
    \/ \E p \in Periods : SetCurrentMonth(p[1], p[2])
    \/ \E request \in inflight : \E response \in Responses(request) :
          LoadDataSettle(request, response)

----------------------------------------------------------------------------
(* Sign-in and route protection.  A pathname is the sequence of its characters. *)

\* the prefixes of the authorized callback, which are also the stems of the
\* matcher's patterns
ProtectedPrefixes ==
    { <<"/", "d", "a", "s", "h", "b", "o", "a", "r", "d">>,
      <<"/", "p", "r", "o", "f", "i", "l", "e">>,
      <<"/", "b", "u", "d", "g", "e", "t", "i", "n", "g">>,
      <<"/", "s", "p", "e", "n", "d", "i", "n", "g">>,
      <<"/", "a", "n", "a", "l", "y", "t", "i", "c", "s">> }

\* the pathnames requested
Pathnames ==
    { <<"/">>,
      <<"/", "d", "a", "s", "h", "b", "o", "a", "r", "d">>,
      <<"/", "d", "a", "s", "h", "b", "o", "a", "r", "d", "/">>,
      <<"/", "d", "a", "s", "h", "b", "o", "a", "r", "d", "/", "s", "e", "t", "t", "i", "n", "g", "s">>,
      <<"/", "d", "a", "s", "h", "b", "o", "a", "r", "d", "/", "r", "e", "p", "o", "r", "t", "s", "/", "2", "0", "2", "5">>,
      <<"/", "d", "a", "s", "h", "b", "o", "a", "r", "d", "/", "/", "s", "e", "t", "t", "i", "n", "g", "s">>,
      <<"/", "d", "a", "s", "h", "b", "o", "a", "r", "d", "x">>,
      <<"/", "d", "a", "s", "h", "b", "o", "a", "r", "d", "-", "o", "l", "d", "/", "s", "e", "t", "t", "i", "n", "g", "s">>,
      <<"/", "p", "r", "o", "f", "i", "l", "e">>,
      <<"/", "p", "r", "o", "f", "i", "l", "e", "/", "e", "d", "i", "t">>,
      <<"/", "p", "r", "o", "f", "i", "l", "e", "s">>,
      <<"/", "b", "u", "d", "g", "e", "t", "i", "n", "g">>,
      <<"/", "b", "u", "d", "g", "e", "t", "i", "n", "g", "/", "6">>,
      <<"/", "s", "p", "e", "n", "d", "i", "n", "g">>,
      <<"/", "s", "p", "e", "n", "d", "i", "n", "g", "s">>,
      <<"/", "a", "n", "a", "l", "y", "t", "i", "c", "s">>,
      <<"/", "a", "n", "a", "l", "y", "t", "i", "c", "s", "/">>,
      <<"/", "a", "n", "a", "l", "y", "t", "i", "c", "s", "x", "/", "y">>,
      <<"/", "a", "u", "t", "h", "/", "s", "i", "g", "n", "i", "n">>,
      <<"/", "a", "p", "i", "/", "s", "h", "e", "e", "t", "s">>,
      <<"/", "a", "s", "s", "e", "t", "s">>,
      <<"/", "a", "c", "c", "o", "u", "n", "t", "s">>,
      <<"/", "d", "a", "s", "h">> }

\* String.prototype.startsWith
startsWith(s, prefix) ==
    /\ Len(s) >= Len(prefix)
    /\ SubSeq(s, 1, Len(prefix)) = prefix

\* a field of the credentials; undefined reads as the empty string (both falsy)
Field(credentials, key) == IF key \in DOMAIN credentials THEN credentials[key] ELSE ""

\* authorize with || in place of &&
authorizeEither(credentials) ==
    IF Field(credentials, "email") # "" \/ Field(credentials, "password") # ""
    THEN [id |-> "demo-user", email |-> Field(credentials, "email"),
          name |-> "Demo User", image |-> "null"]
    ELSE Null

\* CredentialsProvider.authorize
authorize(credentials) ==
    IF Field(credentials, "email") # "" /\ Field(credentials, "password") # ""
    THEN [id |-> "demo-user", email |-> Field(credentials, "email"),
          name |-> "Demo User", image |-> "null"]
    ELSE Null

\* callbacks.jwt at sign-in: the token of the user, with token.id = user.id
jwt(user) == [id |-> user.id, email |-> user.email, name |-> user.name]

\* an authorized callback that lets every request pass
authorizedAlways(tok, pathname) == TRUE

\* callbacks.authorized of the middleware
authorized(tok, pathname) ==
    IF \E prefix \in ProtectedPrefixes : startsWith(pathname, prefix)
    THEN tok # Null
    ELSE TRUE

\* '<stem>/:path*' : the stem alone, or the stem followed by segments that are
\* not empty, each led by "/"; one "/" may close the pathname
matchesPattern(pathname, stem) ==
    /\ startsWith(pathname, stem)
    /\ LET rest == SubSeq(pathname, Len(stem) + 1, Len(pathname))
       IN \/ rest = <<>>
          \/ /\ rest[1] = "/"
             /\ \A i \in 1..(Len(rest) - 1) : ~(rest[i] = "/" /\ rest[i + 1] = "/")

\* config.matcher: the requests the middleware runs for
matcher(pathname) == \E stem \in ProtectedPrefixes : matchesPattern(pathname, stem)

\* the middleware on a request: where the matcher does not match it is not
\* run and the request passes; where authorized answers false, withAuth
\* redirects to the sign-in page
middleware(tok, pathname) ==
    IF matcher(pathname)
    THEN IF authorized(tok, pathname) THEN "next" ELSE "redirect"
    ELSE "next"

Emails == {"", "demo@example.com", "user@example.com"}

Passwords == {"", "secret"}

\* what authorize may be called with: undefined, or an object with any of
\* the two fields
CredentialInputs ==
    {Null}
    \cup {[email |-> e, password |-> pw] : e \in Emails, pw \in Passwords}
    \cup {[email |-> e] : e \in Emails}
    \cup {[password |-> pw] : pw \in Passwords}

NoSignIn == [op |-> "none", credentials |-> Null, user |-> Null]

NoVisit == [op |-> "none", pathname |-> <<>>, hadToken |-> FALSE, outcome |-> "none"]

\* a sign-in with the credentials provider
SignIn(credentials) ==
    /\ signIn' = [op |-> "authorize", credentials |-> credentials,
                  user |-> authorize(credentials)]
    /\ token' = IF authorize(credentials) # Null THEN jwt(authorize(credentials)) ELSE token
    /\ UNCHANGED <<visit, nonAuthVars>>

\* sign-out: the session cookie is dropped
SignOut ==
    /\ token # Null
    /\ token' = Null
    /\ UNCHANGED <<signIn, visit, nonAuthVars>>

\* a page request
Visit(pathname) ==
    /\ visit' = [op |-> "visit", pathname |-> pathname, hadToken |-> token # Null,
                 outcome |-> middleware(token, pathname)]
    /\ UNCHANGED <<token, signIn, nonAuthVars>>

NextAuth ==
    \/ \E credentials \in CredentialInputs : SignIn(credentials)
    \/ SignOut
    \/ \E pathname \in Pathnames : Visit(pathname)

----------------------------------------------------------------------------
(* SmartRecommendations: what the component computes from the store's lists *)

\* totalIncome > 0 ? ((totalIncome - totalExpenses) / totalIncome) * 100 : 0,
\* without the test of totalIncome
savingsRateUnguarded(totalIncome, totalExpenses) ==
    Percent(totalIncome - totalExpenses, totalIncome)

\* totalIncome > 0 ? ((totalIncome - totalExpenses) / totalIncome) * 100 : 0
savingsRate(totalIncome, totalExpenses) ==
    IF totalIncome > 0
    THEN Percent(totalIncome - totalExpenses, totalIncome)
    ELSE Percent(0, 1)

\* categorySpending[name] || 0: the amounts of the expenses of a category
categorySpending(expenses, name) ==
    LET own == SelectSeq(expenses, LAMBDA expense : expense.category = name)
    IN SumSeq([i \in 1..Len(own) |-> own[i].amount])

\* variance > budgeted * 0.15, in whole numbers
Over15Percent(variance, budgeted) == variance * 100 > budgeted * 15

\* "Analyze each category": the overspending warnings, in the order of the
\* budget categories
overspentWarnings(expenses, budgetCategories) ==
    LET variance(category) == categorySpending(expenses, category.name) - category.allocation
        warned == SelectSeq(budgetCategories,
                            LAMBDA category : Over15Percent(variance(category), category.allocation))
    IN [i \in 1..Len(warned) |->
           [id |-> <<"overspent", warned[i].id>>, type |-> "warning",
            category |-> warned[i].name, impact |-> "high", value |-> variance(warned[i])]]

\* "Savings rate recommendations": the id of the one that is pushed
savingsRecommendation(rate) ==
    IF rate.num < 8 * rate.den THEN "low-savings-rate"
    ELSE IF rate.num >= 15 * rate.den THEN "good-savings-rate"
    ELSE "moderate-savings-rate"

\* the useMemo of the component: the savings rate, the savings-rate
\* recommendation and the overspending warnings.  The other recommendations
\* (spikes, weekends, reallocation, food, entertainment, emergency fund,
\* debt, investment, income growth, retirement, subscriptions) are pushed
\* under ids of their own and are left out.
recommendations(monthlyIncome, expenses, budgetCategories) ==
    LET totalIncome == SumSeq([i \in 1..Len(monthlyIncome) |-> monthlyIncome[i].amount])
        totalExpenses == SumSeq([i \in 1..Len(expenses) |-> expenses[i].amount])
        rate == savingsRate(totalIncome, totalExpenses)
    IN [savingsRate |-> rate,
        savings |-> IF rate.den > 0 THEN savingsRecommendation(rate) ELSE "moderate-savings-rate",
        overspent |-> overspentWarnings(expenses, budgetCategories)]

\* the lists a render may find in the store
RenderIncome(amount) ==
    [id |-> <<"income", 0>>, source |-> "Salary", amount |-> amount, month |-> 6,
     year |-> 2025, account |-> "BCA Checking"]

RenderIncomes ==
    { <<>>, <<RenderIncome(0)>>, <<RenderIncome(10000000)>>,
      <<RenderIncome(4000000), RenderIncome(1000000)>> }

RenderExpense(category, amount) ==
    [id |-> <<"expense", 0>>, date |-> "2025-06-05", description |-> "Purchase",
     amount |-> amount, category |-> category, account |-> "BCA Checking",
     month |-> 6, year |-> 2025]

RenderExpenses ==
    { <<>>,
      <<RenderExpense("Food", 8000000)>>,
      <<RenderExpense("Food", 1200000)>>,
      <<RenderExpense("Food", 1150000)>>,
      <<RenderExpense("Food", 1000000), RenderExpense("Food", 150001)>>,
      <<RenderExpense("Entertainment", 691000), RenderExpense("Food", 1070000)>> }

RenderCategory(n, name, allocation, spent) ==
    [id |-> <<"budget", n>>, name |-> name, type |-> "needs", color |-> "#10B981",
     allocation |-> allocation, spent |-> spent, month |-> 6, year |-> 2025,
     account |-> "BCA Checking"]

RenderBudgets ==
    { <<>>,
      <<RenderCategory(1, "Food", 1000000, 1200000)>>,
      <<RenderCategory(1, "Food", 1000000, 1150000)>>,
      <<RenderCategory(1, "Food", 1000000, 0)>>,
      <<RenderCategory(1, "Food", 4000000, 3200000), RenderCategory(4, "Entertainment", 2500000, 3100000)>>,
      <<RenderCategory(1, "Food", 0, 0), RenderCategory(4, "Entertainment", 0, 100)>> }

NoInsight == [op |-> "none"]

\* the component renders on the lists of the store
Render(monthlyIncome, expenses, budgetCategories) ==
    /\ insight' = [op |-> "render", monthlyIncome |-> monthlyIncome, expenses |-> expenses,
                   budgetCategories |-> budgetCategories,
                   result |-> recommendations(monthlyIncome, expenses, budgetCategories)]
    /\ UNCHANGED nonViewVars

NextView ==
    \E monthlyIncome \in RenderIncomes, expenses \in RenderExpenses,
       budgetCategories \in RenderBudgets :
          Render(monthlyIncome, expenses, budgetCategories)

ViewIdle == insight = NoInsight

----------------------------------------------------------------------------
(* Validation of expenses.  A JavaScript value is a record of its type and *)
(* what it holds.                                                          *)

Undefined == [t |-> "undefined"]

Str(s) == [t |-> "string", s |-> s]

Num(n) == [t |-> "number", n |-> n]

\* a Date object, by its ISO text
DateOf(s) == [t |-> "Date", d |-> s]

\* !!x
Truthy(x) ==
    IF x.t = "undefined" THEN FALSE
    ELSE IF x.t = "string" THEN x.s # ""
    ELSE IF x.t = "number" THEN x.n # 0 /\ x.n # NaN
    ELSE TRUE

\* String.prototype.trim on the texts used
TrimTable ==
    [s \in {"", "  ", " Lunch ", "Lunch", "Valid", "Food", "Bank", "1", "2", "2025-06-05"} |->
        IF s = "  " THEN "" ELSE IF s = " Lunch " THEN "Lunch" ELSE s]

trim(s) == TrimTable[s]

\* x <= bound for a number x: false for NaN
LessEq(x, bound) == x.n # NaN /\ x.n <= bound

\* x < bound for a number x: false for NaN
Less(x, bound) == x.n # NaN /\ x.n < bound

\* x > bound for a number x: false for NaN
Greater(x, bound) == x.n # NaN /\ x.n > bound

\* x?.trim()
OptTrim(x) == IF x.t = "string" THEN Str(trim(x.s)) ELSE Undefined

\* Math.abs(x || 0)
AbsOr0(x) == IF ~Truthy(x) THEN Num(0) ELSE IF x.n < 0 THEN Num(0 - x.n) ELSE x

\* the error messages of validateExpense, in the order they are pushed
ExpenseErrors(expense, descriptionBlank) ==
    (IF ~Truthy(expense.id) THEN <<"Expense ID is required">> ELSE <<>>)
    \o (IF descriptionBlank THEN <<"Expense description is required">> ELSE <<>>)
    \o (IF ~Truthy(expense.amount) \/ LessEq(expense.amount, 0)
        THEN <<"Expense amount must be greater than 0">> ELSE <<>>)
    \o (IF ~Truthy(expense.category) THEN <<"Expense category is required">> ELSE <<>>)
    \o (IF ~Truthy(expense.account) THEN <<"Expense account is required">> ELSE <<>>)
    \o (IF ~Truthy(expense.date) THEN <<"Expense date is required">> ELSE <<>>)
    \o (IF ~Truthy(expense.month) \/ Less(expense.month, 1) \/ Greater(expense.month, 12)
        THEN <<"Expense month must be between 1 and 12">> ELSE <<>>)
    \o (IF ~Truthy(expense.year) \/ Less(expense.year, 2000) \/ Greater(expense.year, 2100)
        THEN <<"Expense year must be a valid year">> ELSE <<>>)

\* the result object of validateExpense for its errors
ValidationResult(expense, errors) ==
    [isValid |-> Len(errors) = 0,
     errors |-> errors,
     sanitizedData |->
        IF Len(errors) = 0
        THEN [expense EXCEPT !.description = OptTrim(expense.description),
                             !.amount = AbsOr0(expense.amount),
                             !.category = OptTrim(expense.category),
                             !.account = OptTrim(expense.account)]
        ELSE [id |-> Undefined, description |-> Undefined, amount |-> Undefined,
              category |-> Undefined, account |-> Undefined, date |-> Undefined,
              month |-> Undefined, year |-> Undefined],
     sanitized |-> Len(errors) = 0]

\* validateExpense with the description tested without trim()
validateExpenseNoTrim(expense) ==
    ValidationResult(expense, ExpenseErrors(expense, ~Truthy(expense.description)))

\* validateExpense; sanitized tells whether sanitizedData is defined
validateExpense(expense) ==
    ValidationResult(expense,
        ExpenseErrors(expense, ~Truthy(expense.description) \/ trim(expense.description.s) = ""))

\* DataValidationTests.testExpenseValidation
testExpenseValidation(expense) ==
    IF ~Truthy(expense.id) \/ expense.id.t # "string" THEN FALSE
    ELSE IF ~Truthy(expense.description) \/ expense.description.t # "string" THEN FALSE
    ELSE IF expense.amount.t # "number" \/ LessEq(expense.amount, 0) THEN FALSE
    ELSE IF ~Truthy(expense.category) \/ expense.category.t # "string" THEN FALSE
    ELSE IF ~Truthy(expense.date) \/ expense.date.t # "Date" THEN FALSE
    ELSE TRUE

\* RealTimeFeatureTests.testRealTimeValidation: the two records it filters
RealTimeTestData ==
    << [id |-> Str("1"), description |-> Str("Valid"), amount |-> Num(100),
        category |-> Str("Food"), date |-> DateOf("now"), account |-> Str("Bank"),
        month |-> Undefined, year |-> Undefined],
       [id |-> Str("2"), description |-> Str(""), amount |-> Num(0 - 50),
        category |-> Str(""), date |-> DateOf("now"), account |-> Str("Bank"),
        month |-> Undefined, year |-> Undefined] >>

testRealTimeValidation ==
    Len(SelectSeq(RealTimeTestData, testExpenseValidation)) = 1

\* the objects given to validateExpense: each field absent or of its type
PartialExpenses ==
    [id : {Undefined, Str(""), Str("1")},
     description : {Undefined, Str(""), Str("  "), Str(" Lunch ")},
     amount : {Undefined, Num(NaN), Num(0), Num(0 - 50), Num(100)},
     category : {Undefined, Str(""), Str("Food")},
     account : {Undefined, Str("Bank")},
     date : {Undefined, Str("2025-06-05")},
     month : {Undefined, Num(0), Num(1), Num(12), Num(13)},
     year : {Undefined, Num(1999), Num(2000), Num(2100), Num(2101)}]

\* the objects given to testExpenseValidation: the date a Date, as the test
\* data has it, or a string, as the Expense type has it
TestedExpenses ==
    [id : {Undefined, Str(""), Str("1")},
     description : {Str(""), Str("Valid")},
     amount : {Undefined, Num(NaN), Num(0), Num(0 - 50), Num(100)},
     category : {Str(""), Str("Food")},
     account : {Str("Bank")},
     date : {Undefined, Str("2025-06-05"), DateOf("2025-06-05")},
     month : {Num(6)},
     year : {Num(2025)}]

NoCheck == [op |-> "none"]

\* a call of validateExpense
ValidateExpense(expense) ==
    /\ checked = NoCheck
    /\ checked' = [op |-> "validateExpense", expense |-> expense,
                   result |-> validateExpense(expense)]
    /\ UNCHANGED nonValidVars

\* a call of testExpenseValidation
TestExpenseValidation(expense) ==
    /\ checked = NoCheck
    /\ checked' = [op |-> "testExpenseValidation", expense |-> expense,
                   result |-> testExpenseValidation(expense)]
    /\ UNCHANGED nonValidVars

\* a run of the built-in real-time validation check
TestRealTimeValidation ==
    /\ checked = NoCheck
    /\ checked' = [op |-> "testRealTimeValidation", result |-> testRealTimeValidation]
    /\ UNCHANGED nonValidVars

\* the call has returned
Returned ==
    /\ checked # NoCheck
    /\ checked' = NoCheck
    /\ UNCHANGED nonValidVars

NextValid ==
    \/ \E expense \in PartialExpenses : ValidateExpense(expense)
    \/ \E expense \in TestedExpenses : TestExpenseValidation(expense)
    \/ TestRealTimeValidation
    \/ Returned

ValidIdle == checked = NoCheck

----------------------------------------------------------------------------
(* The store's edit actions, and the store against the route and its       *)
(* spreadsheet                                                             *)

\* items.map(item => item.id === changed.id ? changed : item)
ReplaceById(items, changed) ==
    [i \in 1..Len(items) |-> IF items[i].id = changed.id THEN changed ELSE items[i]]

\* updateIncome: the list is changed in memory; isUpdating is set and reset
updateIncome(st, income) ==
    [st EXCEPT !.monthlyIncome = ReplaceById(st.monthlyIncome, income), !.isUpdating = FALSE]

\* updateExpense
updateExpense(st, expense) ==
    [st EXCEPT !.expenses = ReplaceById(st.expenses, expense), !.isUpdating = FALSE]

\* deleteExpense
deleteExpense(st, id) ==
    [st EXCEPT !.expenses = SelectSeq(st.expenses, LAMBDA expense : expense.id # id),
               !.isUpdating = FALSE]

\* updateAccount
updateAccount(st, account) ==
    [st EXCEPT !.bankAccounts = ReplaceById(st.bankAccounts, account), !.isUpdating = FALSE]

\* updateSettings
updateSettings(st, settings) ==
    [st EXCEPT !.settings = settings, !.isUpdating = FALSE]

\* updateAsset up to its fetch
updateAssetBegin(st, asset) ==
    [st EXCEPT !.isUpdating = TRUE, !.assets = ReplaceById(st.assets, asset)]

\* the assets whose price refreshAssetPrices renews: those with a symbol
\* and the category stocks or crypto (or sharing the symbol of one)
Priced(assets, asset) ==
    /\ asset.symbol # ""
    /\ \E i \in 1..Len(assets) :
          /\ assets[i].symbol = asset.symbol
          /\ assets[i].category \in {"stocks", "crypto"}

\* the percentages the mock price change may come to: price * (0.95 +
\* Math.random() * 0.1)
Factors == {95, 100, 104}

\* refreshAssetPrices up to its fetch; factors[i] is the change drawn for
\* asset i.  shares are in tenths.
refreshedAssets(assets, factors) ==
    [i \in 1..Len(assets) |->
        IF Priced(assets, assets[i])
        THEN LET newPrice == (assets[i].price * factors[i]) \div 100
             IN [assets[i] EXCEPT !.price = newPrice,
                                  !.currentValue =
                                      ((IF assets[i].shares = 0 THEN 10 ELSE assets[i].shares)
                                          * newPrice) \div 10,
                                  !.lastUpdated = NowIso]
        ELSE assets[i]]

\* updateAsset and refreshAssetPrices after their fetch: a response that is
\* not ok, or a rejection, sets the error; finally isUpdating is reset
assetPutSettle(st, put, ok) ==
    IF ok THEN [st EXCEPT !.isUpdating = FALSE]
    ELSE [st EXCEPT !.error = put.message, !.isUpdating = FALSE]

\* a spreadsheet with a header row and two rows of data in each tab
EditSheet ==
    [t \in AllTabs |->
        IF t = "Income"
        THEN SampleSheet(RouteTabs)[t] \o << <<"Freelance Work", "250", "6", "2025", "BCA Checking">> >>
        ELSE IF t = "Expenses"
        THEN SampleSheet(RouteTabs)[t] \o << <<"2025-06-08", "Flight", "250", "Travel", "BCA Checking", "6", "2025">> >>
        ELSE IF t = "Assets"
        THEN SampleSheet(RouteTabs)[t] \o << <<"Bitcoin", "Liquid", "Crypto", "BTC", "100", "1000", "10000", "1200", "2025-06-01">> >>
        ELSE IF t = "Accounts"
        THEN SampleSheet(RouteTabs)[t] \o << <<"Mandiri Savings", "savings", "250", "#10B981">> >>
        ELSE SampleSheet(RouteTabs)[t]]

\* the records the edit actions are called with
IncomeEdits ==
    { [id |-> <<"income", 0>>, source |-> "Freelance Work", amount |-> 1200, month |-> 6,
       year |-> 2025, account |-> "BCA Checking"] }

ExpenseEdits ==
    { [id |-> <<"expense", 0>>, date |-> "2025-06-08", description |-> "Flight", amount |-> 100,
       category |-> "Travel", account |-> "BCA Checking", month |-> 6, year |-> 2025] }

AccountEdits ==
    { [id |-> <<"account", 0>>, name |-> "Mandiri Savings", type |-> "savings",
       balance |-> 1200, color |-> "#10B981"] }

SettingsEdits == { [currency |-> "IDR", dateFormat |-> "DD/MM/YYYY"] }

AssetEdits ==
    { [id |-> <<"asset", 0>>, name |-> "Bitcoin", type |-> "liquid", category |-> "crypto",
       symbol |-> "BTC", shares |-> 100, price |-> 1200, currentValue |-> 10000,
       targetValue |-> 1200, lastUpdated |-> "2025-06-01"] }

NoEdit == [op |-> "none", n |-> 0, changed |-> FALSE]

NoPut == [op |-> "none"]

\* one of the five actions that only change the store
LocalEdit(op, after) ==
    /\ edits < MaxEdits
    /\ edits' = edits + 1
    /\ store' = after
    /\ lastEdit' = [op |-> op, n |-> edits + 1, changed |-> after # store]
    /\ UNCHANGED <<puts, lastPut, inflight, calls, resolved, lastResponse, nonStoreEditVars>>

UpdateIncome(income) == LocalEdit("updateIncome", updateIncome(store, income))

\* an updateExpense that sends the changed list to the route
UpdateExpenseWithPut(expense) ==
    /\ edits < MaxEdits
    /\ edits' = edits + 1
    /\ store' = updateExpense(store, expense)
    /\ puts' = puts \cup {[op |-> "updateExpense", n |-> edits + 1,
                           data |-> store.assets, before |-> store.assets,
                           message |-> "Failed to update expense"]}
    /\ lastEdit' = [op |-> "updateExpense", n |-> edits + 1,
                    changed |-> updateExpense(store, expense) # store]
    /\ UNCHANGED <<lastPut, inflight, calls, resolved, lastResponse, nonStoreEditVars>>

UpdateExpense(expense) == LocalEdit("updateExpense", updateExpense(store, expense))

DeleteExpense(id) == LocalEdit("deleteExpense", deleteExpense(store, id))

UpdateAccount(account) == LocalEdit("updateAccount", updateAccount(store, account))

UpdateSettings(settings) == LocalEdit("updateSettings", updateSettings(store, settings))

\* updateAsset(asset): runs to its PUT
UpdateAsset(asset) ==
    /\ edits < MaxEdits
    /\ edits' = edits + 1
    /\ store' = updateAssetBegin(store, asset)
    /\ puts' = puts \cup {[op |-> "updateAsset", n |-> edits + 1,
                           data |-> ReplaceById(store.assets, asset),
                           before |-> store.assets, message |-> "Failed to update asset"]}
    /\ lastEdit' = [op |-> "updateAsset", n |-> edits + 1,
                    changed |-> ReplaceById(store.assets, asset) # store.assets]
    /\ UNCHANGED <<lastPut, inflight, calls, resolved, lastResponse, nonStoreEditVars>>

\* refreshAssetPrices(): runs to its PUT; without a priced asset it only
\* sets and resets isUpdating
RefreshAssetPrices(factors) ==
    /\ edits < MaxEdits
    /\ edits' = edits + 1
    /\ IF \E i \in 1..Len(store.assets) : Priced(store.assets, store.assets[i])
       THEN /\ store' = [store EXCEPT !.isUpdating = TRUE,
                                      !.assets = refreshedAssets(store.assets, factors)]
            /\ puts' = puts \cup {[op |-> "refreshAssetPrices", n |-> edits + 1,
                                   data |-> refreshedAssets(store.assets, factors),
                                   before |-> store.assets,
                                   message |-> "Failed to refresh asset prices"]}
       ELSE /\ store' = [store EXCEPT !.isUpdating = FALSE]
            /\ puts' = puts
    /\ lastEdit' = [op |-> "refreshAssetPrices", n |-> edits + 1,
                    changed |-> refreshedAssets(store.assets, factors) # store.assets]
    /\ UNCHANGED <<lastPut, inflight, calls, resolved, lastResponse, nonStoreEditVars>>

\* the PUT of an asset action is answered by the route, or its fetch
\* rejects (net = FALSE); then the action runs to its end
AssetPutSettle(put, net, apiOk) ==
    /\ put \in puts
    /\ puts' = puts \ {put}
    /\ LET r == PUT(env, tabs, sheet, "assets", put.data, TRUE, apiOk)
           ok == net /\ r.res.status = 200
       IN /\ sheet' = IF net THEN r.sheet ELSE sheet
          /\ store' = assetPutSettle(store, put, ok)
          /\ lastPut' = [op |-> put.op, ok |-> ok, before |-> put.before,
                         after |-> assetPutSettle(store, put, ok).assets,
                         error |-> assetPutSettle(store, put, ok).error]
    /\ UNCHANGED <<edits, lastEdit, inflight, calls, resolved, lastResponse,
                   env, today, tabs, last, appended, restVars>>

\* the response of the route to the fetch of a loadData
SheetResponse(request, net) ==
    LET res == GET(env, tabs, sheet, today, "all", request.month, request.year, TRUE, {})
    IN IF ~net
       THEN [kind |-> "rejected", message |-> "Failed to fetch", data |-> Body(1, Getters, 0, 0),
             request |-> request]
       ELSE IF res.status = 200
       THEN [kind |-> "ok", message |-> "", data |-> res.body.data, request |-> request]
       ELSE [kind |-> "notOk", message |-> "Failed to fetch data", data |-> Body(1, Getters, 0, 0),
             request |-> request]

\* the fetch of a loadData is answered by the route from the spreadsheet,
\* or rejects, and loadData runs to its end
LoadDataFromSheet(request, net) == LoadDataSettle(request, SheetResponse(request, net))

\* one loadData and one asset action at a time: each is called when the one
\* before it has run to its end
NextEdit ==
    \/ inflight = {} /\ LoadData
    \/ \E request \in inflight, net \in BOOLEAN : LoadDataFromSheet(request, net)
    \/ \E income \in IncomeEdits : UpdateIncome(income)
    \/ \E expense \in ExpenseEdits : UpdateExpense(expense)
    \/ \E id \in {<<"expense", 0>>} : DeleteExpense(id)
    \/ \E account \in AccountEdits : UpdateAccount(account)
    \/ \E settings \in SettingsEdits : UpdateSettings(settings)
    \/ \E asset \in AssetEdits : puts = {} /\ UpdateAsset(asset)
    \/ \E factors \in [1..Len(store.assets) -> Factors] : puts = {} /\ RefreshAssetPrices(factors)
    \/ \E put \in puts, net \in BOOLEAN, apiOk \in BOOLEAN : AssetPutSettle(put, net, apiOk)

EditIdle ==
    /\ puts = {}
    /\ edits = 0
    /\ lastEdit = NoEdit
    /\ lastPut = NoPut

----------------------------------------------------------------------------
(* useLocalStorage in two tabs of one browser: both tabs have a window, so  *)
(* the hook's SSR branches are not taken                                    *)

HookTabs == {1, 2}

\* the key both tabs pass to the hook, and another key of the same storage
Key == "theme"
Keys == {Key, "other"}

\* the values of T, and the initialValue both tabs pass
Values == {"light", "dark", ""}
InitialValue == "light"

\* JSON.stringify of a string value
stringify(value) == "\"" \o value \o "\""

\* JSON.parse of an item that stringify wrote
parse(item) == CHOOSE value \in Values : stringify(value) = item

\* getItem's null
NoItem == "null"

\* the useState initializer: item ? JSON.parse(item) : initialValue
initialState(item) == IF item # NoItem /\ item # "" THEN parse(item) ELSE InitialValue

\* the functional update the setter may be called with
Toggle(value) == IF value = "dark" THEN "light" ELSE "dark"

\* value instanceof Function ? value(storedValue) : value
valueToStore(arg, stored) == IF arg.fn THEN Toggle(stored) ELSE arg.value

SetterArgs == {[fn |-> TRUE, value |-> ""]} \cup {[fn |-> FALSE, value |-> v] : v \in Values}

\* the storage event the browser queues for the other tabs when a tab
\* changes an item: none when the item is left as it was
StorageEvents(q, from, key, old, new) ==
    [t \in HookTabs |->
        IF t # from /\ old # new THEN Append(q[t], [key |-> key, newValue |-> new]) ELSE q[t]]

\* handleStorageChange(e)
handleStorageChange(stored, e) ==
    IF e.key = Key /\ e.newValue # NoItem THEN parse(e.newValue) ELSE stored

\* setValue(value) in tab t
SetValue(t, arg) ==
    /\ uses < MaxUses
    /\ uses' = uses + 1
    /\ acted' = acted \cup {t}
    /\ storedValue' = [storedValue EXCEPT ![t] = valueToStore(arg, storedValue[t])]
    /\ localStorage' = [localStorage EXCEPT ![Key] = stringify(valueToStore(arg, storedValue[t]))]
    /\ events' = StorageEvents(events, t, Key, localStorage[Key],
                               stringify(valueToStore(arg, storedValue[t])))
    /\ UNCHANGED nonHookVars

\* removeValue() in tab t
RemoveValue(t) ==
    /\ uses < MaxUses
    /\ uses' = uses + 1
    /\ acted' = acted \cup {t}
    /\ storedValue' = [storedValue EXCEPT ![t] = InitialValue]
    /\ localStorage' = [localStorage EXCEPT ![Key] = NoItem]
    /\ events' = StorageEvents(events, t, Key, localStorage[Key], NoItem)
    /\ UNCHANGED nonHookVars

\* tab t writes an item of another key
SetOtherKey(t, value) ==
    /\ uses < MaxUses
    /\ uses' = uses + 1
    /\ localStorage' = [localStorage EXCEPT !["other"] = stringify(value)]
    /\ events' = StorageEvents(events, t, "other", localStorage["other"], stringify(value))
    /\ UNCHANGED <<storedValue, acted, nonHookVars>>

\* the browser delivers tab t its next storage event
DeliverStorageEvent(t) ==
    /\ events[t] # <<>>
    /\ storedValue' = [storedValue EXCEPT ![t] = handleStorageChange(storedValue[t], Head(events[t]))]
    /\ events' = [events EXCEPT ![t] = Tail(events[t])]
    /\ UNCHANGED <<localStorage, acted, uses, nonHookVars>>

NextHook ==
    \/ \E t \in HookTabs, arg \in SetterArgs : SetValue(t, arg)
    \/ \E t \in HookTabs : RemoveValue(t)
    \/ \E t \in HookTabs, value \in {"dark"} : SetOtherKey(t, value)
    \/ \E t \in HookTabs : DeliverStorageEvent(t)

\* both tabs have mounted the hook on the same storage and nothing was called
HookStart(item) ==
    /\ localStorage = [k \in Keys |-> IF k = Key THEN item ELSE NoItem]
    /\ storedValue = [t \in HookTabs |-> initialState(item)]
    /\ events = [t \in HookTabs |-> <<>>]
    /\ acted = {}
    /\ uses = 0

HookIdle == HookStart(NoItem)

----------------------------------------------------------------------------
(* Record ids across reloads: the user changes the rows of the Expenses tab *)
(* in the spreadsheet while the client holds a record of an earlier load    *)

\* the spreadsheet at the start: a header row and two expenses of the month
IdsSheet == EditSheet

\* the rows the user may insert, a different one each time
NewRows ==
    << <<"2025-06-02", "Taxi", "950", "Travel", "BCA Checking", "6", "2025">>,
       <<"2025-06-03", "Books", "1040", "Food", "BCA Checking", "6", "2025">>,
       <<"2025-06-04", "Gift", "1200", "Travel", "BCA Checking", "6", "2025">>,
       <<"2025-06-06", "Rent", "9500", "Food", "BCA Checking", "6", "2025">> >>

InsertAt(rows, p, row) == SubSeq(rows, 1, p - 1) \o <<row>> \o SubSeq(rows, p, Len(rows))

RemoveAt(rows, p) == SubSeq(rows, 1, p - 1) \o SubSeq(rows, p + 1, Len(rows))

NoHeld == [held |-> FALSE]

\* the user inserts a row at position p of the Expenses tab
InsertRow(p) ==
    /\ sheetEdits < MaxSheetEdits
    /\ sheetEdits' = sheetEdits + 1
    /\ sheet' = [sheet EXCEPT !["Expenses"] = InsertAt(@, p, NewRows[sheetEdits + 1])]
    /\ UNCHANGED <<held, env, today, tabs, last, appended, storeVars, editVars,
                   authVars, viewVars, validVars, hookVars, debounceVars, mutateVars>>

\* the user removes row p of the Expenses tab
RemoveRow(p) ==
    /\ sheetEdits < MaxSheetEdits
    /\ sheetEdits' = sheetEdits + 1
    /\ sheet' = [sheet EXCEPT !["Expenses"] = RemoveAt(@, p)]
    /\ UNCHANGED <<held, env, today, tabs, last, appended, storeVars, editVars,
                   authVars, viewVars, validVars, hookVars, debounceVars, mutateVars>>

\* a component takes expense i of the store, to edit or delete it later
Hold(i) ==
    /\ held = NoHeld
    /\ held' = [held |-> TRUE, expense |-> store.expenses[i], sheetEdits |-> sheetEdits,
                loads |-> Len(resolved)]
    /\ UNCHANGED <<sheetEdits, nonIdsVars>>

\* the value the component changes the amount of its expense to
NewAmount == 10400

\* updateExpense with the expense held, its amount changed
UpdateHeld ==
    /\ held # NoHeld
    /\ UpdateExpense([held.expense EXCEPT !.amount = NewAmount])

\* deleteExpense with the id of the expense held
DeleteHeld ==
    /\ held # NoHeld
    /\ DeleteExpense(held.expense.id)

\* one thing at a time: the route answers a load from the spreadsheet as it
\* stands when it answers, so a change of the spreadsheet during a load is a
\* change before it
NextIds ==
    \/ inflight = {} /\ LoadData
    \/ \E request \in inflight : LoadDataFromSheet(request, TRUE)
    \/ \E i \in 1..Len(store.expenses) : inflight = {} /\ Hold(i)
    \/ \E p \in 2..(Len(sheet["Expenses"]) + 1) : inflight = {} /\ InsertRow(p)
    \/ \E p \in 2..Len(sheet["Expenses"]) : inflight = {} /\ RemoveRow(p)
    \/ inflight = {} /\ UpdateHeld
    \/ inflight = {} /\ DeleteHeld

IdsIdle ==
    /\ held = NoHeld
    /\ sheetEdits = 0

----------------------------------------------------------------------------
(* debounce: the wrappers a component has made of one function, and the     *)
(* pending of the event loop.  Time is counted in ticks; a timer runs its    *)
(* callback at its due time or later, never before.                         *)

\* the `wait` the wrappers are made with, in ticks
Wait == 2

\* the wrappers: the component makes a new one whenever its data changes
Wrappers == {1, 2}

\* the arguments the wrapped function is called with
CallArgs == {"a", "b"}

\* a wrapper that sets its new timer without clearing the one before
debouncedNoClear(pending, time, args, n) ==
    pending \cup {[due |-> time + Wait, args |-> args, call |-> n]}

\* the function debounce returns, called with args as the wrapper's n-th
\* call: clearTimeout(timeout); timeout = setTimeout(() => func(...args), wait).
\* pending holds the timers of this wrapper that have not run: the one
\* `timeout` names, if any
debounced(pending, time, args, n) ==
    {[due |-> time + Wait, args |-> args, call |-> n]}

\* a call of wrapper w
CallDebounced(w, args) ==
    /\ Len(called[1]) + Len(called[2]) < MaxCalls
    /\ called' = [called EXCEPT ![w] = Append(@, [at |-> clock, args |-> args])]
    /\ timers' = [timers EXCEPT ![w] = debounced(@, clock, args, Len(called[w]) + 1)]
    /\ UNCHANGED <<clock, ran, nonDebounceVars>>

\* the event loop runs the callback of a timer that is due: func(...args)
RunTimer(w, timer) ==
    /\ timer \in timers[w]
    /\ clock >= timer.due
    /\ timers' = [timers EXCEPT ![w] = @ \ {timer}]
    /\ ran' = [ran EXCEPT ![w] = Append(@, [at |-> clock, args |-> timer.args, call |-> timer.call])]
    /\ UNCHANGED <<clock, called, nonDebounceVars>>

\* a tick of the clock; a timer may be run late, but by MaxLate ticks at most
Tick ==
    /\ clock < MaxTime
    /\ \A w \in Wrappers : \A timer \in timers[w] : clock < timer.due + MaxLate
    /\ clock' = clock + 1
    /\ UNCHANGED <<timers, called, ran, nonDebounceVars>>

NextDebounce ==
    \/ \E w \in Wrappers, args \in CallArgs : CallDebounced(w, args)
    \/ \E w \in Wrappers : \E timer \in timers[w] : RunTimer(w, timer)
    \/ Tick

DebounceIdle ==
    /\ clock = 0
    /\ timers = [w \in Wrappers |-> {}]
    /\ called = [w \in Wrappers |-> <<>>]
    /\ ran = [w \in Wrappers |-> <<>>]

----------------------------------------------------------------------------
(* The store's actions that send a request: addIncome, addExpense and       *)
(* updateBudgetCategory against the route and its spreadsheet               *)

\* try { set({ isUpdating: true }) ... up to the fetch
requestBegin(st) == [st EXCEPT !.isUpdating = TRUE]

\* a catch block without the finally block after it
requestFailedNoFinally(st, message) == [st EXCEPT !.error = message]

\* the catch and finally blocks of an action whose request has failed
requestFailed(st, message) == [st EXCEPT !.error = message, !.isUpdating = FALSE]

\* updateBudgetCategory after an ok response: the category is replaced in
\* the store, the dashboard refreshed, and finally isUpdating reset
updateBudgetCategoryOk(st, category) ==
    [refreshDashboard([st EXCEPT !.budgetCategories = ReplaceById(st.budgetCategories, category)])
        EXCEPT !.isUpdating = FALSE]

\* addIncome and addExpense after the loadData they await has run to its
\* end: finally isUpdating is reset
addEnd(st, response) == [loadDataSettle(st, response) EXCEPT !.isUpdating = FALSE]

NoEnd == [op |-> "none", n |-> 0, outcome |-> "none"]

\* an action runs to its fetch
RequestBegin(op, type, data, message) ==
    /\ edits < MaxEdits
    /\ calls + Cardinality(requests) < MaxLoads
    /\ edits' = edits + 1
    /\ store' = requestBegin(store)
    /\ requests' = requests \cup {[op |-> op, n |-> edits + 1, type |-> type, data |-> data,
                                   message |-> message, outcome |-> "none", load |-> 0]}
    /\ lastEdit' = [op |-> op, n |-> edits + 1, changed |-> FALSE]
    /\ UNCHANGED <<ended, puts, lastPut, inflight, calls, resolved, lastResponse, apiVars,
                   authVars, viewVars, validVars, hookVars, idsVars, debounceVars>>

AddIncome(income) == RequestBegin("addIncome", "income", income, "Failed to add income")

AddExpense(expense) == RequestBegin("addExpense", "expense", expense, "Failed to add expense")

UpdateBudgetCategory(category) ==
    RequestBegin("updateBudgetCategory", "budget", category, "Failed to update budget category")

\* the outcome of a fetch: it rejects (net = FALSE), or the route answers
Outcome(net, res) == IF ~net THEN "threw" ELSE IF res.status = 200 THEN "ok" ELSE "notOk"

\* the PUT of updateBudgetCategory is answered, or its fetch rejects, and
\* the action runs to its end
BudgetPutSettle(r, net, apiOk) ==
    /\ r \in requests
    /\ r.op = "updateBudgetCategory"
    /\ requests' = requests \ {r}
    /\ LET a == PUT(env, tabs, sheet, "budget", r.data, apiOk, apiOk)
       IN /\ sheet' = IF net THEN a.sheet ELSE sheet
          /\ store' = IF Outcome(net, a.res) = "ok"
                      THEN updateBudgetCategoryOk(store, r.data)
                      ELSE requestFailed(store, r.message)
          /\ ended' = [op |-> r.op, n |-> r.n, outcome |-> Outcome(net, a.res)]
    /\ UNCHANGED <<inflight, calls, resolved, lastResponse, editVars,
                   env, today, tabs, last, appended,
                   authVars, viewVars, validVars, hookVars, idsVars, debounceVars>>

\* the POST of addIncome or addExpense is answered, or its fetch rejects:
\* after an ok response the action calls loadData, which runs to its fetch,
\* and awaits it; otherwise the action runs to its end
AddPostSettle(r, net, apiOk) ==
    /\ r \in requests
    /\ r.op \in {"addIncome", "addExpense"}
    /\ r.load = 0
    /\ LET a == POST(env, tabs, sheet, r.type, r.data, apiOk)
       IN /\ sheet' = IF net THEN a.sheet ELSE sheet
          /\ IF Outcome(net, a.res) = "ok"
             THEN /\ store' = loadDataBegin(store)
                  /\ calls' = calls + 1
                  /\ inflight' = fetch(inflight, [id |-> calls + 1, month |-> store.currentMonth,
                                                  year |-> store.currentYear])
                  /\ requests' = (requests \ {r})
                                    \cup {[r EXCEPT !.outcome = "ok", !.load = calls + 1]}
                  /\ ended' = ended
             ELSE /\ store' = requestFailed(store, r.message)
                  /\ requests' = requests \ {r}
                  /\ ended' = [op |-> r.op, n |-> r.n, outcome |-> Outcome(net, a.res)]
                  /\ UNCHANGED <<calls, inflight>>
    /\ UNCHANGED <<resolved, lastResponse, editVars, env, today, tabs, last, appended,
                   authVars, viewVars, validVars, hookVars, idsVars, debounceVars>>

\* the loadData an add action awaits runs to its end, and then the action
AddLoadSettle(r, request, net) ==
    /\ r \in requests
    /\ request \in inflight
    /\ r.load = request.id
    /\ inflight' = inflight \ {request}
    /\ store' = addEnd(store, SheetResponse(request, net))
    /\ resolved' = Append(resolved, request.id)
    /\ lastResponse' = SheetResponse(request, net)
    /\ requests' = requests \ {r}
    /\ ended' = [op |-> r.op, n |-> r.n, outcome |-> "ok"]
    /\ UNCHANGED <<calls, editVars, apiVars,
                   authVars, viewVars, validVars, hookVars, idsVars, debounceVars>>

\* one action at a time: each is called when the one before it has run to
\* its end
Quiet == requests = {} /\ puts = {} /\ inflight = {}

NextMutate ==
    \/ Quiet /\ LoadData
    \/ \E request \in inflight :
          /\ \A r \in requests : r.load # request.id
          /\ LoadDataFromSheet(request, TRUE)
    \/ \E income \in {i \in IncomeInputs : i.year = store.currentYear} : Quiet /\ AddIncome(income)
    \/ \E expense \in {e \in ExpenseInputs : e.month = store.currentMonth} :
          Quiet /\ AddExpense(expense)
    \/ \E category \in {c \in BudgetInputs : c.name = "Travel"} :
          Quiet /\ UpdateBudgetCategory(category)
    \/ \E r \in requests, net \in BOOLEAN, apiOk \in BOOLEAN : BudgetPutSettle(r, net, apiOk)
    \/ \E r \in requests, net \in BOOLEAN, apiOk \in BOOLEAN : AddPostSettle(r, net, apiOk)
    \/ \E r \in requests, request \in inflight, net \in BOOLEAN : AddLoadSettle(r, request, net)
    \/ \E income \in IncomeEdits : Quiet /\ UpdateIncome(income)
    \/ \E expense \in ExpenseEdits : Quiet /\ UpdateExpense(expense)
    \/ \E id \in {<<"expense", 0>>} : Quiet /\ DeleteExpense(id)
    \/ \E account \in AccountEdits : Quiet /\ UpdateAccount(account)
    \/ \E settings \in SettingsEdits : Quiet /\ UpdateSettings(settings)
    \/ \E asset \in AssetEdits : Quiet /\ UpdateAsset(asset)
    \/ \E factors \in [1..Len(store.assets) -> Factors] : Quiet /\ RefreshAssetPrices(factors)
    \/ \E put \in puts, net \in BOOLEAN, apiOk \in BOOLEAN : AssetPutSettle(put, net, apiOk)

MutateIdle ==
    /\ requests = {}
    /\ ended = NoEnd

----------------------------------------------------------------------------
(* Specifications *)

ApiIdle ==
    /\ env = [v \in EnvVars |-> "set"]
    /\ today = <<6, 2025>>
    /\ tabs = RouteTabs
    /\ sheet = SampleSheet(RouteTabs)
    /\ last = Idle
    /\ appended = None

StoreIdle ==
    /\ store = StoreInit
    /\ inflight = {}
    /\ calls = 0
    /\ resolved = <<>>
    /\ lastResponse = NoResponse

AuthIdle ==
    /\ token = Null
    /\ signIn = NoSignIn
    /\ visit = NoVisit

InitApi ==
    /\ env \in Envs
    /\ today \in Todays
    /\ tabs \in {RouteTabs, GuideTabs}
    /\ sheet \in {BlankSheet, SampleSheet(tabs)}
    /\ last = Idle
    /\ appended = None
    /\ StoreIdle
    /\ AuthIdle
    /\ ViewIdle
    /\ ValidIdle
    /\ EditIdle
    /\ HookIdle
    /\ IdsIdle
    /\ DebounceIdle
    /\ MutateIdle

SpecApi == InitApi /\ [][NextApi]_vars

InitStore == ApiIdle /\ StoreIdle /\ AuthIdle /\ ViewIdle /\ ValidIdle /\ EditIdle /\ HookIdle /\ IdsIdle /\ DebounceIdle /\ MutateIdle

SpecStore == InitStore /\ [][NextStore]_vars

InitAuth == ApiIdle /\ StoreIdle /\ AuthIdle /\ ViewIdle /\ ValidIdle /\ EditIdle /\ HookIdle /\ IdsIdle /\ DebounceIdle /\ MutateIdle

SpecAuth == InitAuth /\ [][NextAuth]_vars

InitView == ApiIdle /\ StoreIdle /\ AuthIdle /\ ViewIdle /\ ValidIdle /\ EditIdle /\ HookIdle /\ IdsIdle /\ DebounceIdle /\ MutateIdle

SpecView == InitView /\ [][NextView]_vars

InitValid == ApiIdle /\ StoreIdle /\ AuthIdle /\ ViewIdle /\ ValidIdle /\ EditIdle /\ HookIdle /\ IdsIdle /\ DebounceIdle /\ MutateIdle

SpecValid == InitValid /\ [][NextValid]_vars

InitEdit ==
    /\ env \in {[v \in EnvVars |-> "set"],
                [v \in EnvVars |-> IF v = "GOOGLE_SHEET_ID" THEN "" ELSE "set"]}
    /\ today = <<6, 2025>>
    /\ tabs = RouteTabs
    /\ sheet = EditSheet
    /\ last = Idle
    /\ appended = None
    /\ StoreIdle /\ AuthIdle /\ ViewIdle /\ ValidIdle /\ EditIdle /\ HookIdle /\ IdsIdle /\ DebounceIdle /\ MutateIdle

SpecEdit == InitEdit /\ [][NextEdit]_vars

InitHook ==
    /\ ApiIdle /\ StoreIdle /\ AuthIdle /\ ViewIdle /\ ValidIdle /\ EditIdle /\ IdsIdle /\ DebounceIdle /\ MutateIdle
    /\ \E item \in {NoItem} \cup {stringify(value) : value \in Values} : HookStart(item)

SpecHook == InitHook /\ [][NextHook]_vars

InitIds ==
    /\ env = [v \in EnvVars |-> "set"]
    /\ today = <<6, 2025>>
    /\ tabs = RouteTabs
    /\ sheet = IdsSheet
    /\ last = Idle
    /\ appended = None
    /\ StoreIdle /\ AuthIdle /\ ViewIdle /\ ValidIdle /\ EditIdle /\ HookIdle /\ IdsIdle /\ DebounceIdle /\ MutateIdle

SpecIds == InitIds /\ [][NextIds]_vars

InitDebounce == ApiIdle /\ StoreIdle /\ AuthIdle /\ ViewIdle /\ ValidIdle /\ EditIdle /\ HookIdle /\ IdsIdle /\ DebounceIdle /\ MutateIdle

SpecDebounce == InitDebounce /\ [][NextDebounce]_vars

InitMutate ==
    /\ env = [v \in EnvVars |-> "set"]
    /\ today = <<6, 2025>>
    /\ tabs = RouteTabs
    /\ sheet = EditSheet
    /\ last = Idle
    /\ appended = None
    /\ StoreIdle /\ AuthIdle /\ ViewIdle /\ ValidIdle /\ EditIdle /\ HookIdle /\ IdsIdle
    /\ DebounceIdle /\ MutateIdle

SpecMutate == InitMutate /\ [][NextMutate]_vars

----------------------------------------------------------------------------
(* Claims about the server side, checked under SpecApi *)

RequiredPresent == ~createSheetsService(env).threw

Success == Json200([success |-> TRUE])

\* the rows of a tab from row 2 on, as they stand in the spreadsheet
RowsFrom2(t) == [i \in 1..Max(0, Len(sheet[t]) - 1) |-> sheet[t][i + 1]]

\* C1: when a credential or the spreadsheet id is missing from the
\* environment, GET /api/sheets still answers 200 with a {data: ...} body;
\* a missing value never yields an error response.
C1_MissingConfigStillData ==
    (/\ last.op = "GET"
     /\ last.type # "other"
     /\ last.fails = {}
     /\ \E v \in EnvVars : env[v] = "")
    => (last.res.status = 200 /\ "data" \in DOMAIN last.res.body)

\* C2: a month-scoped getter (income, budget, expenses) whose row set is
\* empty answers the demo records for the current month and year and the
\* empty list for every other month or year.
C2_EmptyRowsDemoOnlyNow ==
    (/\ last.op = "GET"
     /\ last.type \in {"income", "budget", "expenses"}
     /\ RequiredPresent
     /\ last.fails = {}
     /\ last.range.value = <<>>)
    => last.res.body.data =
          IF <<last.month, last.year>> # today THEN <<>>
          ELSE IF last.type = "income" THEN DemoIncome(last.month, last.year)
          ELSE IF last.type = "budget" THEN DemoBudget(last.month, last.year)
          ELSE DemoExpenses(last.month, last.year)

\* C3: getRange never throws; it resolves to the empty sequence when the
\* service is unconfigured or the API call fails, and otherwise to the rows
\* of the range as the spreadsheet holds them, in order.
C3_GetRangeNeverThrows ==
    (/\ last.op = "GET"
     /\ last.type \in Getters
     /\ RequiredPresent)
    => /\ ~last.range.threw
       /\ last.range.value =
             IF isConfigured(env) /\ last.apiOk /\ ranges[last.type].tab \in tabs
             THEN RowsFrom2(ranges[last.type].tab)
             ELSE <<>>

C3_Witness ==
    /\ last.op = "GET"
    /\ last.type = "expenses"
    /\ isConfigured(env)
    /\ ~last.apiOk
    /\ Len(sheet["Expenses"]) >= 2
    /\ last.range = [threw |-> FALSE, value |-> <<>>]

\* C4: with the required environment variables present, POST with type
\* expense or income and PUT with type budget or assets answer
\* {success: true}, whether or not the spreadsheet was changed: a failure of
\* appendData or updateRange does not reach the caller.
C4_WritesAnswerSuccess ==
    (/\ last.op \in {"POST", "PUT"}
     /\ last.type # "other"
     /\ RequiredPresent)
    => last.res = Success

C4_Witness ==
    /\ last.op = "POST"
    /\ last.type = "expense"
    /\ isConfigured(env)
    /\ "Expenses" \in tabs
    /\ ~last.apiOk
    /\ sheet = last.before
    /\ last.res = Success

\* the fields of a submitted record are those of some record of the list
Contains(list, data) ==
    \E i \in 1..Len(list) : \A f \in DOMAIN data : list[i][f] = data[f]

\* C5: a record appended through a POST that was answered {success: true}
\* is in the result of the next GET for its type, month and year.
C5_AppendedIsReadBack ==
    (/\ last.op = "GET"
     /\ last.expected # None
     /\ last.apiOk
     /\ last.fails = {})
    => /\ last.res.status = 200
       /\ Contains(last.res.body.data, last.expected.data)

\* C10: with the required environment variables present, GET type=all
\* answers 200 with a data object of exactly the five lists; a getter that
\* rejects gives the empty list for its key, and every other key holds what
\* its own getter returns.
C10_AllAlwaysFiveLists ==
    (/\ last.op = "GET"
     /\ last.type = "all"
     /\ RequiredPresent)
    => /\ last.res.status = 200
       /\ DOMAIN last.res.body = {"data"}
       /\ DOMAIN last.res.body.data = Getters
       /\ \A key \in Getters :
             LET g == Getter(key, env, tabs, sheet, today, last.month, last.year,
                             last.apiOk, last.fails \cap {key})
             IN last.res.body.data[key] = IF g.threw THEN <<>> ELSE g.value

C10_Witness ==
    /\ last.op = "GET"
    /\ last.type = "all"
    /\ RequiredPresent
    /\ last.fails = {"budget"}
    /\ last.res.status = 200
    /\ last.res.body.data.budget = <<>>
    /\ last.res.body.data.income # <<>>
    /\ last.res.body.data.expenses # <<>>

----------------------------------------------------------------------------
(* Claims about the client store, checked under SpecStore *)

\* the five lists of the store
StoreLists(st) ==
    [income |-> st.monthlyIncome, budget |-> st.budgetCategories,
     expenses |-> st.expenses, assets |-> st.assets, accounts |-> st.bankAccounts]

\* the five lists of a response body, a key it lacks read as the empty list
ResponseLists(data) ==
    [key \in Getters |-> IF key \in DOMAIN data THEN data[key] ELSE <<>>]

\* C6: loads are neither deduplicated nor cancelled nor reordered: every
\* loadData call has its own fetch, in flight or resolved, and once all of
\* them have resolved the five lists of the store are those of the response
\* that resolved last (an ok one), whichever load it answers.
C6_LastResolvedWins ==
    /\ calls = Len(resolved) + Cardinality(inflight)
    /\ \A i, j \in 1..Len(resolved) : i # j => resolved[i] # resolved[j]
    /\ (inflight = {} /\ lastResponse.kind = "ok")
          => StoreLists(store) = ResponseLists(lastResponse.data)

\* two loads overlapped, the later one resolved first and the earlier one
\* last, and the store holds the lists of the earlier load's response
C6_Witness ==
    /\ calls = 2
    /\ inflight = {}
    /\ resolved = <<2, 1>>
    /\ lastResponse.kind = "ok"
    /\ store.currentMonth = 7
    /\ store.monthlyIncome # <<>>
    /\ store.monthlyIncome[1].month = 6
    /\ StoreLists(store) = ResponseLists(lastResponse.data)

\* C7: the step in which a load gets an ok response leaves each of the five
\* lists equal to the response's list for its key, the empty list where the
\* response has no such key, whatever the store held before.
C7_OkResponseReplacesLists ==
    [][(resolved' # resolved /\ lastResponse'.kind = "ok")
          => /\ StoreLists(store') = ResponseLists(lastResponse'.data)
             /\ ~store'.isLoading]_vars

\* a second ok response without the expenses key has emptied the expenses a
\* first response had filled, and has replaced the income
C7_Witness ==
    /\ Len(resolved) = 2
    /\ lastResponse.kind = "ok"
    /\ "expenses" \notin DOMAIN lastResponse.data
    /\ store.expenses = <<>>
    /\ Len(store.monthlyIncome) = 2
    /\ store.dashboardData # Null
    /\ store.dashboardData.monthlyReport.totalIncome = 350
    /\ store.dashboardData.monthlyReport.totalSpending = 0

----------------------------------------------------------------------------
(* Claims about sign-in and route protection, checked under SpecAuth *)

\* C8, as stated: a request passes exactly when a token is present if its
\* pathname starts with one of the five prefixes, and passes in any case
\* otherwise.
C8_PrefixNeedsToken ==
    visit.op = "visit" =>
        ((visit.outcome = "next") <=>
            ((\E prefix \in ProtectedPrefixes : startsWith(visit.pathname, prefix))
                => visit.hadToken))

\* C8, amended: a request whose pathname the matcher matches (one of the
\* five prefixes alone or followed by "/"-led segments) passes exactly when
\* a token is present; any other request passes whatever the token, also
\* one whose pathname only starts with the characters of a prefix.
C8_MatchedNeedsToken ==
    visit.op = "visit" =>
        ((visit.outcome = "next") <=> (matcher(visit.pathname) => visit.hadToken))

\* a request for a page below /dashboard without a token was redirected
C8_Witness ==
    /\ visit.op = "visit"
    /\ visit.pathname = <<"/", "d", "a", "s", "h", "b", "o", "a", "r", "d", "/", "s", "e", "t", "t", "i", "n", "g", "s">>
    /\ ~visit.hadToken
    /\ visit.outcome = "redirect"

\* C9: authorize returns a user exactly when email and password are both
\* non-empty and null otherwise; the user's id is 'demo-user' and its email
\* the one given.
C9_AuthorizeNonEmptyPair ==
    signIn.op = "authorize" =>
        /\ (signIn.user # Null) <=>
              (Field(signIn.credentials, "email") # ""
               /\ Field(signIn.credentials, "password") # "")
        /\ signIn.user # Null =>
              /\ signIn.user.id = "demo-user"
              /\ signIn.user.email = signIn.credentials.email

\* a second sign-in with another email got a user with the same id
C9_Witness ==
    /\ signIn.op = "authorize"
    /\ signIn.user # Null
    /\ signIn.user.id = "demo-user"
    /\ signIn.user.email = "user@example.com"
    /\ token # Null
    /\ token.id = "demo-user"

----------------------------------------------------------------------------
(* Claims about reading and writing rows, checked under SpecApi *)

\* the tab the setup guide prescribes for a month-scoped type
GuideTab(type) ==
    IF type = "income" THEN "Income" ELSE IF type = "budget" THEN "Budgeting" ELSE "Spending"

\* the columns of a tab that hold the month and the year, and the text that
\* names the record
MonthColumn(type) == IF type = "income" THEN 3 ELSE 6

NameColumn(type) == IF type = "expenses" THEN 2 ELSE 1

\* the data rows (row 2 on) of a type's guide tab for a month and year
MatchingRows(type, month, year) ==
    SelectSeq(RowsFrom2(GuideTab(type)),
              LAMBDA row : /\ parseNumber(Cell(row, MonthColumn(type))) = month
                           /\ parseNumber(Cell(row, MonthColumn(type) + 1)) = year)

\* the text that names a record of a type
NameOf(type, record) ==
    IF type = "income" THEN record.source
    ELSE IF type = "budget" THEN record.name ELSE record.description

\* C11: with the service configured and the spreadsheet laid out as the
\* setup guide prescribes (tabs Income, Budgeting, Spending; headers in row
\* 1, data from row 2), a GET of a month-scoped type answers one record for
\* every data row of that month and year, in order, none skipped and none
\* of them demo data.
C11_GuideLayoutRowsReturned ==
    (/\ last.op = "GET"
     /\ last.type \in {"income", "budget", "expenses"}
     /\ RequiredPresent
     /\ isConfigured(env)
     /\ last.apiOk
     /\ last.fails = {}
     /\ tabs = GuideTabs
     /\ Len(sheet[GuideTab(last.type)]) >= 1)
    => /\ last.res.status = 200
       /\ LET rows == MatchingRows(last.type, last.month, last.year)
              data == last.res.body.data
          IN /\ Len(data) = Len(rows)
             /\ \A i \in 1..Len(rows) :
                   NameOf(last.type, data[i]) = Cell(rows[i], NameColumn(last.type))

----------------------------------------------------------------------------
(* Claims about the dashboard figures, checked under SpecStore *)

\* C12: after refreshDashboard the values of expensesByCategory add up to
\* monthlyReport.totalSpending, the sum of the amounts of all expenses in the
\* store: every expense is counted in exactly one category.
C12_CategoryValuesSumToSpending ==
    store.dashboardData # Null =>
        /\ store.dashboardData.monthlyReport.totalSpending =
              SumSeq([i \in 1..Len(store.expenses) |-> store.expenses[i].amount])
        /\ SumSeq([i \in 1..Len(store.dashboardData.expensesByCategory) |->
                      store.dashboardData.expensesByCategory[i].value])
              = store.dashboardData.monthlyReport.totalSpending

----------------------------------------------------------------------------
(* Claims about the recommendations, checked under SpecView *)

\* the sum of the amounts of a list of records
TotalAmount(list) == SumSeq([i \in 1..Len(list) |-> list[i].amount])

\* C13: the savings rate is (income - expenses) / income * 100 when the
\* total income is positive and exactly 0 when it is 0, never a division by
\* zero; income 10,000,000 with expenses 8,000,000 gives 20.
C13_SavingsRate ==
    insight.op = "render" =>
        LET income == TotalAmount(insight.monthlyIncome)
            expenses == TotalAmount(insight.expenses)
            rate == insight.result.savingsRate
        IN /\ rate.den # 0
           /\ income > 0 => (rate.num = (income - expenses) * 100 /\ rate.den = income)
           /\ income = 0 => rate.num = 0
           /\ (income = 10000000 /\ expenses = 8000000) => rate.num = 20 * rate.den

\* a render on income 10,000,000 and expenses 8,000,000 gave the rate 20
C13_Witness ==
    /\ insight.op = "render"
    /\ TotalAmount(insight.monthlyIncome) = 10000000
    /\ TotalAmount(insight.expenses) = 8000000
    /\ insight.result.savingsRate.num = 20 * insight.result.savingsRate.den
    /\ insight.result.savings = "good-savings-rate"

\* C14: for a budget category record with allocation A and spent S the
\* engine emits an overspending warning for that category, with value S - A,
\* exactly when S - A is more than 15% of A.
C14_OverspendWarning ==
    insight.op = "render" =>
        \A i \in 1..Len(insight.budgetCategories) :
            LET category == insight.budgetCategories[i]
                warnings == SelectSeq(insight.result.overspent,
                                      LAMBDA rec : rec.id = <<"overspent", category.id>>)
            IN IF (category.spent - category.allocation) * 100 > category.allocation * 15
               THEN /\ Len(warnings) = 1
                    /\ warnings[1].value = category.spent - category.allocation
               ELSE Len(warnings) = 0

----------------------------------------------------------------------------
(* Claims about validation, checked under SpecValid *)

\* a field that is present as a non-empty text
HasText(x) == x.t = "string" /\ x.s # ""

\* a field that is present as a number within bounds
NumberIn(x, low, high) == x.t = "number" /\ x.n # NaN /\ x.n >= low /\ x.n <= high

\* C15: validateExpense(e).isValid is true exactly when e has an id, a
\* non-blank description, an amount greater than 0, a category, an account,
\* a date, a month in 1..12 and a year in 2000..2100; errors is empty
\* exactly when isValid, and sanitizedData is defined exactly when isValid.
C15_ValidateExpense ==
    checked.op = "validateExpense" =>
        LET e == checked.expense
            r == checked.result
        IN /\ r.isValid <=>
                 /\ HasText(e.id)
                 /\ HasText(e.description) /\ e.description.s # "  "
                 /\ e.amount.t = "number" /\ e.amount.n # NaN /\ e.amount.n > 0
                 /\ HasText(e.category)
                 /\ HasText(e.account)
                 /\ HasText(e.date)
                 /\ NumberIn(e.month, 1, 12)
                 /\ NumberIn(e.year, 2000, 2100)
           /\ (r.errors = <<>>) <=> r.isValid
           /\ r.sanitized <=> r.isValid

\* an expense with every field in order and spaces around its description
\* was found valid and sanitized
C15_Witness ==
    /\ checked.op = "validateExpense"
    /\ checked.expense.description = Str(" Lunch ")
    /\ checked.expense.month = Num(12)
    /\ checked.result.isValid
    /\ checked.result.errors = <<>>
    /\ checked.result.sanitized
    /\ checked.result.sanitizedData.description = Str("Lunch")

\* C16: testExpenseValidation rejects every expense that has an empty id,
\* an empty description, an empty category or an amount that is not a
\* positive number, and accepts the others; the built-in real-time check
\* keeps one of its two records.
C16_TestExpenseValidation ==
    /\ checked.op = "testExpenseValidation" =>
          (checked.result <=>
              /\ HasText(checked.expense.id)
              /\ HasText(checked.expense.description)
              /\ HasText(checked.expense.category)
              /\ NumberIn(checked.expense.amount, 1, 100))
    /\ checked.op = "testRealTimeValidation" => checked.result

----------------------------------------------------------------------------
(* Claims about the store's edit actions *)

\* C17: when the PUT of updateAsset or refreshAssetPrices has failed (a
\* response that is not ok, or a rejected fetch), the assets of the store
\* after the action are the assets it held before the action.
C17_FailedPutRollsBack ==
    (lastPut.op \in {"updateAsset", "refreshAssetPrices"} /\ ~lastPut.ok)
        => lastPut.after = lastPut.before

\* the five actions that have no request in their code
LocalOps == {"updateIncome", "updateExpense", "deleteExpense", "updateAccount", "updateSettings"}

\* the lists the route answers from the spreadsheet for a month
SheetLists(month, year) ==
    ResponseLists(GET(env, tabs, sheet, today, "all", month, year, TRUE, {}).body.data)

\* the records of a list that an edit has put there
Edited(list, editSet) == {i \in 1..Len(list) : list[i] \in editSet}

\* C19: a step of updateIncome, updateExpense, deleteExpense, updateAccount
\* or updateSettings changes the store only: no request is sent (no fetch of
\* a load, no PUT) and the spreadsheet is unchanged; and the step in which a
\* later load gets its ok response leaves the five lists equal to what the
\* route reads from the spreadsheet and the settings null, with no edited
\* record left.
C19_LocalEditsDiscarded ==
    [][/\ (lastEdit'.n # lastEdit.n /\ lastEdit'.op \in LocalOps)
            => /\ sheet' = sheet
               /\ puts' = puts
               /\ inflight' = inflight
               /\ calls' = calls
       /\ (resolved' # resolved /\ lastResponse'.kind = "ok")
            => /\ StoreLists(store')
                    = SheetLists(lastResponse'.request.month, lastResponse'.request.year)
               /\ store'.settings = Null
               /\ Edited(store'.monthlyIncome, IncomeEdits) = {}
               /\ Edited(store'.expenses, ExpenseEdits) = {}
               /\ Edited(store'.bankAccounts, AccountEdits) = {}]_vars

\* a first load filled the store, updateExpense then changed an expense in
\* the store, and a second load has put the spreadsheet's expense back
C19_Witness ==
    /\ isConfigured(env)
    /\ edits = 1
    /\ lastEdit.op = "updateExpense"
    /\ lastEdit.changed
    /\ Len(resolved) = 2
    /\ inflight = {}
    /\ lastResponse.kind = "ok"
    /\ store.expenses # <<>>
    /\ Edited(store.expenses, ExpenseEdits) = {}
    /\ StoreLists(store) = SheetLists(store.currentMonth, store.currentYear)

----------------------------------------------------------------------------
(* Claims about useLocalStorage, checked under SpecHook *)

\* C18: of two tabs that use the hook with the same key, when only one tab
\* has called setValue and removeValue and every storage event has been
\* delivered, the other tab's state equals that tab's state.
C18_OtherTabFollows ==
    \A t \in HookTabs :
        (acted = {t} /\ \A u \in HookTabs : events[u] = <<>>)
            => \A u \in HookTabs : storedValue[u] = storedValue[t]

----------------------------------------------------------------------------
(* Claims about PUT type=budget, checked under SpecApi *)

\* the rows of the budget tab, header excluded, that hold the category's
\* name, month and year
CategoryRows(rows, category) ==
    {i \in 2..Len(rows) :
        /\ Cell(rows[i], 1) = category.name
        /\ parseNumber(Cell(rows[i], 6)) = category.month
        /\ parseNumber(Cell(rows[i], 7)) = category.year}

\* the row updateBudgetCategory writes for a category
CategoryRow(category) ==
    <<category.name, category.type, category.color, NumCell(category.allocation),
      NumCell(category.spent), NumCell(category.month), NumCell(category.year),
      category.account>>

\* C20: after a PUT with type budget on a configured service whose API calls
\* succeed, the one row of the budget tab whose name, month and year are the
\* submitted category's holds the submitted values, every other row of the
\* spreadsheet is as before, and without such a row nothing has changed.
C20_BudgetPutOverwritesMatchingRow ==
    (last.op = "PUT" /\ last.type = "budget" /\ last.apiOk /\ isConfigured(env))
        => LET tab == ranges.budget.tab
               before == last.before[tab]
               hits == CategoryRows(before, last.data)
           IN /\ \A t \in AllTabs \ {tab} : sheet[t] = last.before[t]
              /\ Len(sheet[tab]) = Len(before)
              /\ \A i \in (1..Len(before)) \ hits : sheet[tab][i] = before[i]
              /\ \A i \in hits : TrimRow(sheet[tab][i]) = TrimRow(CategoryRow(last.data))

----------------------------------------------------------------------------
(* Claims about reading back what a PUT wrote, checked under SpecApi *)

\* the fields of a record besides its id, which every read assigns anew
SameFields(a, b) == \A f \in (DOMAIN b) \ {"id"} : f \in DOMAIN a /\ a[f] = b[f]

\* what a GET of a type answers from the spreadsheet as it stands
ReadBack(type, month, year) == GET(env, tabs, sheet, today, type, month, year, TRUE, {})

\* C21: after a PUT of type budget or assets that a configured service
\* answered {success: true} with its API calls succeeding, the next GET of
\* the same type answers 200 and holds what was written: the asset list
\* record for record in its order, the budget category among the categories
\* of its month and year, each with the field values that were submitted.
C21_PutReadsBack ==
    (/\ last.op = "PUT"
     /\ last.type \in {"budget", "assets"}
     /\ last.apiOk
     /\ isConfigured(env)
     /\ last.res.status = 200)
    => IF last.type = "assets"
       THEN LET r == ReadBack("assets", today[1], today[2])
            IN /\ r.status = 200
               /\ Len(r.body.data) = Len(last.data)
               /\ \A i \in 1..Len(last.data) : SameFields(r.body.data[i], last.data[i])
       ELSE LET r == ReadBack("budget", last.data.month, last.data.year)
            IN /\ r.status = 200
               /\ \E i \in 1..Len(r.body.data) : SameFields(r.body.data[i], last.data)

----------------------------------------------------------------------------
(* Claims about record ids, checked under SpecIds *)

\* the expense a row of the tab is read as
ExpenseOfRow(row) == getExpenses(<<row, row>>, store.currentMonth, store.currentYear, today)

\* the rows of the Expenses tab that hold the expense a component holds
HeldRows ==
    {p \in 2..Len(sheet["Expenses"]) :
        \E i \in 1..Len(ExpenseOfRow(sheet["Expenses"][p])) :
            SameFields(ExpenseOfRow(sheet["Expenses"][p])[i], held.expense)}

\* the row the held expense had when it was read: the id counts the rows
\* after the first of the range
RowOfHeldId == ranges.expenses.first + 1 + held.expense.id[2]

\* the store holds the expenses of a reload that was answered from the
\* spreadsheet as it stands
Reloaded ==
    /\ inflight = {}
    /\ lastResponse.kind = "ok"
    /\ store.expenses = SheetLists(store.currentMonth, store.currentYear).expenses

HeldChanged == [held.expense EXCEPT !.amount = NewAmount]

----------------------------------------------------------------------------
(* Claims about failing and overlapping loads, checked under SpecStore *)

\* C23: the step in which a load gets a response that is not ok, or its
\* fetch rejects, leaves the five lists and dashboardData as they were,
\* sets error to the failure's message (not null) and isLoading to false.
C23_FailedLoadKeepsData ==
    [][(resolved' # resolved /\ lastResponse'.kind \in {"notOk", "rejected"})
          => /\ StoreLists(store') = StoreLists(store)
             /\ store'.dashboardData = store.dashboardData
             /\ store'.error = lastResponse'.message
             /\ store'.error # NoError
             /\ ~store'.isLoading]_vars

\* a first load filled the lists and the dashboard, a second load failed,
\* and the store holds the first load's data with the error set
C23_Witness ==
    /\ resolved = <<1, 2>>
    /\ inflight = {}
    /\ lastResponse.kind = "rejected"
    /\ store.monthlyIncome # <<>>
    /\ store.expenses # <<>>
    /\ store.dashboardData # Null
    /\ store.error = "Failed to fetch"
    /\ ~store.isLoading

\* the records of a list that belong to another month than the store's
\* current one
OffMonth(list) ==
    {i \in 1..Len(list) :
        list[i].month # store.currentMonth \/ list[i].year # store.currentYear}

\* C24: whenever no load is in flight and error is null, every record of
\* monthlyIncome, budgetCategories and expenses is of the store's
\* currentMonth and currentYear.
C24_ListsOfCurrentMonth ==
    (inflight = {} /\ store.error = NoError)
        => /\ OffMonth(store.monthlyIncome) = {}
           /\ OffMonth(store.budgetCategories) = {}
           /\ OffMonth(store.expenses) = {}

\* C25: isLoading is true as long as a load awaits its response.
C25_LoadingWhileInFlight == inflight # {} => store.isLoading

----------------------------------------------------------------------------
(* Claims about the settings, checked under SpecEdit *)

\* C26: the step in which a load gets its ok response leaves the settings
\* of the store as they were: what updateSettings stored stays.
C26_LoadKeepsSettings ==
    [][(resolved' # resolved /\ lastResponse'.kind = "ok")
          => store'.settings = store.settings]_vars

----------------------------------------------------------------------------
(* Claims about the session check on the API route, checked under SpecAuth *)

\* the pathname of the route whose GET, POST and PUT serve and write the
\* sheet data; the handlers themselves read no session
SheetsPath == <<"/", "a", "p", "i", "/", "s", "h", "e", "e", "t", "s">>

\* C27: a request to /api/sheets without a session token does not reach the
\* route's handlers.
C27_SheetsRouteNeedsToken ==
    (visit.op = "visit" /\ visit.pathname = SheetsPath /\ ~visit.hadToken)
        => visit.outcome # "next"

----------------------------------------------------------------------------
(* Claims about debounce, checked under SpecDebounce *)

\* the invocations a wrapper's timers have made for its k-th call
RunsOf(w, k) == {i \in 1..Len(ran[w]) : ran[w][i].call = k}

\* C28: for every wrapper, each invocation of the wrapped function is made
\* for the wrapper's most recent call, Wait ticks or more after it and with
\* its arguments; no call is invoked twice; a call followed by another less
\* than Wait ticks later is never invoked; and once no timer of the wrapper
\* is left, its last call has been invoked exactly once.
C28_DebounceRunsLastCallOnce ==
    \A w \in Wrappers :
        /\ \A i \in 1..Len(ran[w]) :
              LET run == ran[w][i]
                  call == called[w][run.call]
              IN /\ run.at >= call.at + Wait
                 /\ run.args = call.args
                 /\ run.call < Len(called[w]) => called[w][run.call + 1].at >= run.at
        /\ \A k \in 1..Len(called[w]) : Cardinality(RunsOf(w, k)) <= 1
        /\ \A k \in 1..(Len(called[w]) - 1) :
              called[w][k + 1].at - called[w][k].at < Wait => RunsOf(w, k) = {}
        /\ (timers[w] = {} /\ called[w] # <<>>)
              => Cardinality(RunsOf(w, Len(called[w]))) = 1

\* a burst of three calls of one wrapper, each one tick after the one
\* before, has led to one invocation, with the arguments of the third call
C28_Witness ==
    /\ Len(called[1]) = 3
    /\ called[1][1].at = 0 /\ called[1][2].at = 1 /\ called[1][3].at = 2
    /\ called[1][2].args # called[1][3].args
    /\ timers[1] = {}
    /\ Len(ran[1]) = 1
    /\ ran[1][1].call = 3
    /\ ran[1][1].args = called[1][3].args
    /\ ran[1][1].at >= 2 + Wait

----------------------------------------------------------------------------
(* Claims about isUpdating, checked under SpecMutate *)

AddOps == {"addIncome", "addExpense"}

====
